---- MODULE Spec2Model ----
(***************************************************************************)
(* DirShare: replication of a flat directory between peer participants.   *)
(* The model follows the sources: FileChangeTracker (suppression set),     *)
(* FileMonitor::scan_for_changes (directory diff), the FileEvent and       *)
(* FileContent listeners (inbound handlers) and the publishing loop of     *)
(* DirShare.cpp (startup push, per-cycle CREATE/MODIFY publication).       *)
(*                                                                         *)
(* Threads: the main thread (startup push, then scan + publish cycles)     *)
(* and the listener threads run concurrently; the only locks are the       *)
(* tracker's and the monitor's own mutexes, so a scan may fall between     *)
(* any two file-system calls of a handler.  Handlers are therefore cut at  *)
(* their file-system calls (write_file / set_file_mtime / resume).         *)
(***************************************************************************)
EXTENDS Integers, Sequences, FiniteSets, TLC

\* ---------------------------------------------------------------- bounds
MaxTime  == 3    \* clock and timestamps range over 1..MaxTime (seconds)
MaxNsec  == 1    \* nanosecond fields on the wire range over 0..MaxNsec
MaxByte  == 1    \* byte values range over 1..MaxByte
MaxQueue == 2    \* capacity of one topic's in-flight queue per writer
CHUNK_SIZE == 2  \* bytes per FileChunk (1 MiB in the source, scaled down)
MaxFileLen == 5  \* length of the longest file sent as chunks
MaxDuplicates == 1  \* repeated deliveries of chunks of one transfer
MaxFaults == 1   \* damaged or inconsistent chunks delivered in one run
CHUNK_THRESHOLD == 3  \* size from which a file goes out as FileChunks (10 MiB in
                      \* the source, scaled down)
MaxNameLen == 3  \* length of the longest candidate filename
MaxSuppressions == 2  \* suppress calls counted for one name since its last resume

\* ----------------------------------------------------------- value sets
Participants == {"A", "B"}

\* filenames are character sequences; F is a valid single-segment name,
\* Bad is a path-traversal name ("../f")
F   == <<"f">>
Bad == <<".", ".", "/", "f">>
G   == <<"g">>
Names == {F, Bad, G}

Times == 1..MaxTime
Nsecs == 0..MaxNsec

\* file contents: the empty file and the one-byte files
Data == {<<>>} \cup {<<b>> : b \in 1..MaxByte}

NoFile  == [exists |-> FALSE]
NoState == [known |-> FALSE]

Other(p) == CHOOSE q \in Participants : q # p

\* ------------------------------------------------------------- checksum
\* CRC32 of a byte buffer (Checksum.h: calculate_crc32 / compute_checksum).
\* Only its contract is used: a function of the bytes, 0 for the empty
\* buffer, different for the different buffers of Data.
RECURSIVE CrcFeed(_, _)
CrcFeed(crc, d) ==
  IF d = <<>> THEN crc ELSE CrcFeed((crc * 31 + Head(d)) % 65536, Tail(d))

compute_checksum(d) == CrcFeed(0, d)

\* a checksum value that is the CRC of no element of Data
BadChecksum == 1 + compute_checksum(<<MaxByte>>)

\* -------------------------------------------------------------- strings
\* std::string::find(sub) != npos
Contains(s, sub) ==
  \E i \in 1..(Len(s) - Len(sub) + 1) : SubSeq(s, i, i + Len(sub) - 1) = sub

\* FileUtils.cpp is_valid_filename (used by list_directory_files)
is_valid_filename(filename) ==
  IF filename = <<>> THEN FALSE
  ELSE IF Contains(filename, <<".", ".", "/">>) \/ Contains(filename, <<".", ".", "\\">>)
          \/ Contains(filename, <<"/", ".", ".">>) \/ Contains(filename, <<"\\", ".", ".">>)
       THEN FALSE
  ELSE IF filename[1] = "/" \/ filename[1] = "\\" THEN FALSE
  ELSE IF Len(filename) >= 2 /\ filename[2] = ":" THEN FALSE
  ELSE IF Contains(filename, <<"/">>) \/ Contains(filename, <<"\\">>) THEN FALSE
  ELSE TRUE

\* FileEventListenerImpl::is_valid_filename
FileEventListenerImpl_is_valid_filename(filename) ==
  IF filename = <<>> THEN FALSE
  ELSE IF filename[1] = "/" \/ filename[1] = "\\" THEN FALSE
  ELSE IF Len(filename) >= 2 /\ filename[2] = ":" THEN FALSE
  ELSE IF Contains(filename, <<".", ".">>) THEN FALSE
  ELSE IF Contains(filename, <<"/">>) \/ Contains(filename, <<"\\">>) THEN FALSE
  ELSE TRUE

\* ---------------------------------------------------------------- state
VARIABLES
  seen,               \* what the last sample handled by Local was and did (history)
  echo,               \* per name: how far an inbound write is from the scan after it (history)
  start,              \* the directories as they were at startup (history)
  fs,                 \* fs[p][n]: NoFile or [exists, data, mtime] (st_mtime, seconds)
  suppressed_paths_,  \* FileChangeTracker::suppressed_paths_ of p
  previous_state_,    \* FileMonitor::previous_state_ of p: name -> FileState / NoState
  current_state,      \* scan_for_changes' local map, between its two loops
  created_files,      \* outputs of the last scan_for_changes of p
  modified_files,
  deleted_files,
  todo,               \* names of the created/modified loops not yet handled
  mpc,                \* position of p's main thread
  cpc,                \* position of p's FileContent handler
  epc,                \* position of p's FileEvent handler (inside a DELETE or idle)
  chanE,              \* FileEvents written by p, not yet taken by the peer
  chanC,              \* FileContents written by p, not yet taken by the peer
  now,                \* wall clock (seconds)
  log,                \* last handler log line of p: [kind, filename]
  cycle_events,       \* FileEvents p published in its current cycle: {<<op, name>>}
  reassembly_buffer_, \* FileChunkListenerImpl::reassembly_buffer_ of p: name -> ChunkedFile
  xfer,               \* the chunked transfer under way and what became of it (history)
  change,             \* one published change and the topics each receiver has taken it from
  scanned,            \* what Local's last scan_for_changes started from (history)
  call,               \* a function of the program applied to arguments, and its result
  mutex_,             \* FileChangeTracker::mutex_ of Local: the thread holding it, or "free"
  thr,                \* the threads calling Local's tracker: position, call, result
  lin                 \* the tracker's set as the calls made so far give it, in the
                      \* order in which they took the lock (history)

vars == <<fs, suppressed_paths_, previous_state_, current_state, created_files,
          modified_files, deleted_files, todo, mpc, cpc, epc, chanE, chanC, now,
          log, cycle_events, seen, echo, start, reassembly_buffer_, xfer, change, scanned, call, mutex_, thr, lin>>

monitor_vars == <<previous_state_, current_state, created_files, modified_files,
                  deleted_files, todo, mpc, cycle_events>>
net_vars == <<chanE, chanC>>
history_vars == <<seen, echo, start>>
chunk_vars == <<reassembly_buffer_, xfer>>
tracker_vars == <<mutex_, thr, lin>>

Idle == [pc |-> "idle"]

\* ------------------------------------------------------------ FileUtils
file_exists(p, n) == fs[p][n].exists

\* get_file_mtime: st_mtime in seconds; nsec is always reported as 0
get_file_mtime(p, n) == [sec |-> fs[p][n].mtime, nsec |-> 0]

\* write_file: truncating write; the file's mtime becomes the current time
write_file(d) == [exists |-> TRUE, data |-> d, mtime |-> now]

\* set_file_mtime: utime() with modtime = (time_t) sec; nsec is not used
set_file_mtime(file, sec, nsec) == [file EXCEPT !.mtime = sec]

\* list_directory_files: the regular files of the directory whose names
\* pass is_valid_filename (a name with a separator is not an entry of it)
list_directory_files(p) ==
  {n \in Names : fs[p][n].exists /\ is_valid_filename(n)}

\* --------------------------------------------------- FileChangeTracker
\* is_suppressed that never finds the path
is_suppressed_never(p, path) == FALSE

\* resume_notifications that forgets to erase the path
resume_notifications_noop(set, path) == set

\* suppress_notifications that forgets to insert the path
suppress_notifications_noop(set, path) == set

\* resume_notifications that erases every path
resume_notifications_clearing(set, path) == {}

\* a guard that does not wait for the mutex
mutex_acquire_unguarded(holder) == TRUE

suppress_notifications(set, path) == set \cup {path}
resume_notifications(set, path) == set \ {path}
is_suppressed(p, path) == path \in suppressed_paths_[p]

\* clear() and suppressed_count()
clear(set) == {}
suppressed_count(set) == Cardinality(set)

\* ACE_Guard<ACE_Thread_Mutex> guard(mutex_): the constructor returns once
\* no other thread holds the mutex
mutex_acquire(holder) == holder = "free"

\* what a call that changes the set stores: std::set insert, erase, clear
tracker_apply(fn, set, path) ==
  CASE fn = "suppress_notifications" -> suppress_notifications(set, path)
    [] fn = "resume_notifications" -> resume_notifications(set, path)
    [] fn = "clear" -> clear(set)

\* per-participant update of a function-valued variable
Upd(f, p, v) == [f EXCEPT ![p] = v]
SetFile(p, n, file) == [fs EXCEPT ![p][n] = file]

\* the last line a handler of p wrote with ACE_DEBUG / ACE_ERROR
Logged(p, kind, n) == log' = Upd(log, p, [kind |-> kind, filename |-> n])

\* ------------------------------------------------- FileEventListenerImpl
\* handle_create_event
handle_create_event(p, event) ==
  LET n == event.filename IN
  /\ IF file_exists(p, n)
       THEN /\ Logged(p, "create_exists", n)
            /\ UNCHANGED suppressed_paths_
       ELSE /\ suppressed_paths_' =
                 Upd(suppressed_paths_, p, suppress_notifications(suppressed_paths_[p], n))
            /\ Logged(p, "create_suppressed", n)
  /\ UNCHANGED <<fs, cpc, epc>>

\* handle_modify_event: the remote-is-newer test on (sec, nsec)
modify_remote_is_newer(remote_sec, remote_nsec, local_sec, local_nsec) ==
  IF remote_sec > local_sec THEN TRUE
  ELSE IF remote_sec = local_sec /\ remote_nsec > local_nsec THEN TRUE
  ELSE FALSE

handle_modify_event(p, event) ==
  LET n == event.filename IN
  /\ IF ~file_exists(p, n)
       THEN /\ suppressed_paths_' =
                 Upd(suppressed_paths_, p, suppress_notifications(suppressed_paths_[p], n))
            /\ Logged(p, "modify_as_create", n)
       ELSE LET local == get_file_mtime(p, n) IN
            IF modify_remote_is_newer(event.metadata.timestamp_sec,
                                      event.metadata.timestamp_nsec,
                                      local.sec, local.nsec)
              THEN /\ suppressed_paths_' =
                        Upd(suppressed_paths_, p,
                            suppress_notifications(suppressed_paths_[p], n))
                   /\ Logged(p, "modify_suppressed", n)
              ELSE /\ Logged(p, "modify_ignored", n)
                   /\ UNCHANGED suppressed_paths_
  /\ UNCHANGED <<fs, cpc, epc>>

\* handle_delete_event: the delete-is-newer test uses the event's own timestamp
delete_is_newer(remote_sec, remote_nsec, local_sec, local_nsec) ==
  IF remote_sec > local_sec THEN TRUE
  ELSE IF remote_sec = local_sec /\ remote_nsec > local_nsec THEN TRUE
  ELSE FALSE

\* the timestamp handle_delete_event compares with the local mtime
\* the timestamp taken from the metadata instead of the event
delete_metadata_timestamp(event) ==
  [sec |-> event.metadata.timestamp_sec, nsec |-> event.metadata.timestamp_nsec]

delete_remote_timestamp(event) ==
  [sec |-> event.timestamp_sec, nsec |-> event.timestamp_nsec]

\* handle_delete_event up to and including delete_file; unlink_ok is the
\* outcome of ACE_OS::unlink
handle_delete_event(p, event, unlink_ok) ==
  LET n == event.filename IN
  /\ UNCHANGED cpc
  /\ IF ~file_exists(p, n)
       THEN /\ Logged(p, "delete_missing", n)
            /\ UNCHANGED <<fs, suppressed_paths_, epc>>
       ELSE LET local  == get_file_mtime(p, n)
                remote == delete_remote_timestamp(event) IN
            IF delete_is_newer(remote.sec, remote.nsec, local.sec, local.nsec)
              THEN IF unlink_ok
                     THEN /\ suppressed_paths_' =
                               Upd(suppressed_paths_, p,
                                   suppress_notifications(suppressed_paths_[p], n))
                          /\ fs' = SetFile(p, n, NoFile)
                          /\ epc' = Upd(epc, p, [pc |-> "unlinked", filename |-> n])
                          /\ Logged(p, "delete_unlinked", n)
                     ELSE \* suppress, failed delete_file, resume, return
                          /\ suppressed_paths_' =
                               Upd(suppressed_paths_, p,
                                   resume_notifications(
                                     suppress_notifications(suppressed_paths_[p], n), n))
                          /\ Logged(p, "delete_failed", n)
                          /\ UNCHANGED <<fs, epc>>
              ELSE /\ Logged(p, "delete_ignored", n)
                   /\ UNCHANGED <<fs, suppressed_paths_, epc>>

\* handle_delete_event after a successful delete_file: resume and return
handle_delete_event_resume(p) ==
  /\ epc[p].pc = "unlinked"
  /\ suppressed_paths_' =
       Upd(suppressed_paths_, p, resume_notifications(suppressed_paths_[p], epc[p].filename))
  /\ epc' = Upd(epc, p, Idle)
  /\ Logged(p, "delete_resumed", epc[p].filename)
  /\ UNCHANGED <<fs, cpc>>

\* FileEventListenerImpl::on_data_available for one taken sample
FileEventListenerImpl_on_data_available(p, event, unlink_ok) ==
  /\ epc[p].pc = "idle"
  /\ IF ~FileEventListenerImpl_is_valid_filename(event.filename)
       THEN /\ Logged(p, "invalid_filename", event.filename)
            /\ UNCHANGED <<fs, suppressed_paths_, cpc, epc>>
       ELSE CASE event.operation = "CREATE" -> handle_create_event(p, event)
              [] event.operation = "MODIFY" -> handle_modify_event(p, event)
              [] event.operation = "DELETE" -> handle_delete_event(p, event, unlink_ok)

\* ----------------------------------------------- FileContentListenerImpl
\* the comparison with ties accepted
remote_is_newer_or_equal(remote_sec, remote_nsec, local_sec, local_nsec) ==
  remote_sec > local_sec \/ (remote_sec = local_sec /\ remote_nsec >= local_nsec)

\* process_file_content: the remote-is-newer test on (sec, nsec)
remote_is_newer(remote_sec, remote_nsec, local_sec, local_nsec) ==
  IF remote_sec > local_sec THEN TRUE
  ELSE IF remote_sec = local_sec /\ remote_nsec > local_nsec THEN TRUE
  ELSE FALSE

\* the policy check at the head of process_file_content
content_policy_rejects(p, content) ==
  /\ file_exists(p, content.filename)
  /\ LET local == get_file_mtime(p, content.filename) IN
     ~remote_is_newer(content.timestamp_sec, content.timestamp_nsec,
                      local.sec, local.nsec)

\* "size matches actual data length"
content_size_mismatch(content) == content.size # Len(content.data)

\* "verify checksum": only computed for a non-empty payload
content_checksum_mismatch(content) ==
  /\ Len(content.data) > 0
  /\ compute_checksum(content.data) # content.checksum

\* process_file_content up to and including write_file; write_ok is the
\* outcome of write_file
process_file_content(p, content, write_ok) ==
  LET n == content.filename
      resumed == Upd(suppressed_paths_, p, resume_notifications(suppressed_paths_[p], n))
  IN
  /\ cpc[p].pc = "idle"
  /\ UNCHANGED epc
  /\ IF content_policy_rejects(p, content)
       THEN /\ suppressed_paths_' = resumed
            /\ Logged(p, "content_local_newer", n)
            /\ UNCHANGED <<fs, cpc>>
     ELSE IF content_size_mismatch(content)
       THEN /\ suppressed_paths_' = resumed
            /\ Logged(p, "content_size_mismatch", n)
            /\ UNCHANGED <<fs, cpc>>
     ELSE IF content_checksum_mismatch(content)
       THEN /\ suppressed_paths_' = resumed
            /\ Logged(p, "content_checksum_mismatch", n)
            /\ UNCHANGED <<fs, cpc>>
     ELSE IF ~write_ok
       THEN /\ suppressed_paths_' = resumed
            /\ Logged(p, "content_write_failed", n)
            /\ UNCHANGED <<fs, cpc>>
     ELSE /\ fs' = SetFile(p, n, write_file(content.data))
          /\ cpc' = Upd(cpc, p, [pc |-> "written", filename |-> n,
                                 timestamp_sec |-> content.timestamp_sec,
                                 timestamp_nsec |-> content.timestamp_nsec])
          /\ Logged(p, "content_preserving_timestamp", n)
          /\ UNCHANGED <<suppressed_paths_>>

\* process_file_content: set_file_mtime (a failure is only a warning)
process_file_content_set_mtime(p, mtime_ok) ==
  LET n == cpc[p].filename IN
  /\ cpc[p].pc = "written"
  /\ IF mtime_ok /\ file_exists(p, n)
       THEN /\ fs' = SetFile(p, n, set_file_mtime(fs[p][n], cpc[p].timestamp_sec,
                                                   cpc[p].timestamp_nsec))
            /\ Logged(p, "content_timestamp_preserved", n)
       ELSE /\ Logged(p, "content_timestamp_failed", n)
            /\ UNCHANGED fs
  /\ cpc' = Upd(cpc, p, [cpc[p] EXCEPT !.pc = "mtime_done"])
  /\ UNCHANGED <<suppressed_paths_, epc>>

\* process_file_content: the final resume_notifications
process_file_content_resume(p) ==
  LET n == cpc[p].filename IN
  /\ cpc[p].pc = "mtime_done"
  /\ suppressed_paths_' =
       Upd(suppressed_paths_, p, resume_notifications(suppressed_paths_[p], n))
  /\ cpc' = Upd(cpc, p, Idle)
  /\ Logged(p, "content_written", n)
  /\ UNCHANGED <<fs, epc>>

\* ------------------------------------------------- FileChunkListenerImpl
\* finalize_file: the remote-is-newer test on (sec, nsec)
finalize_remote_is_newer(remote_sec, remote_nsec, local_sec, local_nsec) ==
  IF remote_sec > local_sec THEN TRUE
  ELSE IF remote_sec = local_sec /\ remote_nsec > local_nsec THEN TRUE
  ELSE FALSE

\* finalize_file for a complete accumulator chunked_file of filename n;
\* write_ok and mtime_ok are the outcomes of write_file and set_file_mtime
finalize_file(p, n, chunked_file, write_ok, mtime_ok) ==
  LET resumed == Upd(suppressed_paths_, p, resume_notifications(suppressed_paths_[p], n))
      local == get_file_mtime(p, n)
  IN
  /\ suppressed_paths_' = resumed
  /\ UNCHANGED <<cpc, epc>>
  /\ IF file_exists(p, n)
        /\ ~finalize_remote_is_newer(chunked_file.timestamp_sec,
                                     chunked_file.timestamp_nsec, local.sec, local.nsec)
       THEN /\ Logged(p, "chunk_local_newer", n)
            /\ UNCHANGED fs
     ELSE IF compute_checksum(chunked_file.data) # chunked_file.file_checksum
       THEN /\ Logged(p, "chunk_checksum_mismatch", n)
            /\ UNCHANGED fs
     ELSE IF ~write_ok
       THEN /\ Logged(p, "chunk_write_failed", n)
            /\ UNCHANGED fs
     ELSE /\ fs' = SetFile(p, n,
                IF mtime_ok
                  THEN set_file_mtime(write_file(chunked_file.data),
                                      chunked_file.timestamp_sec,
                                      chunked_file.timestamp_nsec)
                  ELSE write_file(chunked_file.data))
          /\ Logged(p, "chunk_written", n)

\* a ChunkedFile as its constructor leaves it
NoChunkedFile ==
  [total_chunks |-> 0, file_size |-> 0, file_checksum |-> 0, timestamp_sec |-> 0,
   timestamp_nsec |-> 0, data |-> <<>>, received_chunks |-> {}]

\* completeness judged by the number of received chunks alone
is_complete_by_count(chunked_file) ==
  Cardinality(chunked_file.received_chunks) = chunked_file.total_chunks

\* ChunkedFile::is_complete
is_complete(chunked_file) ==
  /\ Cardinality(chunked_file.received_chunks) = chunked_file.total_chunks
  /\ \A i \in 0..(chunked_file.total_chunks - 1) : i \in chunked_file.received_chunks

\* std::vector<uint8_t>::resize: cut, or pad with zero bytes
resize(data, size) ==
  [i \in 1..size |-> IF i <= Len(data) THEN data[i] ELSE 0]

\* process_chunk: the per-chunk checksum test, skipped for an empty payload
chunk_checksum_mismatch(chunk) ==
  /\ Len(chunk.data) > 0
  /\ compute_checksum(chunk.data) # chunk.chunk_checksum

\* process_chunk: "Initialize on first chunk"
chunk_initialize(chunked_file, chunk) ==
  IF chunked_file.total_chunks = 0
    THEN [chunked_file EXCEPT !.total_chunks = chunk.total_chunks,
                              !.file_size = chunk.file_size,
                              !.file_checksum = chunk.file_checksum,
                              !.timestamp_sec = chunk.timestamp_sec,
                              !.timestamp_nsec = chunk.timestamp_nsec,
                              !.data = resize(chunked_file.data, chunk.file_size)]
    ELSE chunked_file

\* process_chunk: "Validate consistency"
chunk_inconsistent(chunked_file, chunk) ==
  \/ chunk.total_chunks # chunked_file.total_chunks
  \/ chunk.file_size # chunked_file.file_size
  \/ chunk.file_checksum # chunked_file.file_checksum

\* every chunk placed at the start of the buffer
chunk_offset_zero(chunk) == 0

\* the bounds test left out
chunk_exceeds_never(chunked_file, chunk) == FALSE

\* process_chunk: where the chunk's bytes go
chunk_offset(chunk) == chunk.chunk_id * CHUNK_SIZE

chunk_exceeds(chunked_file, chunk) ==
  chunk_offset(chunk) + Len(chunk.data) > chunked_file.file_size

\* process_chunk: memcpy into the buffer and mark the chunk received
chunk_copy(chunked_file, chunk) ==
  LET offset == chunk_offset(chunk) IN
  [chunked_file EXCEPT
     !.data = [i \in 1..Len(chunked_file.data) |->
                 IF i > offset /\ i <= offset + Len(chunk.data)
                   THEN chunk.data[i - offset]
                   ELSE chunked_file.data[i]],
     !.received_chunks = @ \cup {chunk.chunk_id}]

\* reassembly_buffer_ with the entry of n left in place
reassembly_keep(buffer, n) == buffer

\* reassembly_buffer_.erase(filename)
reassembly_erase(buffer, n) == [m \in DOMAIN buffer \ {n} |-> buffer[m]]

\* reassembly_buffer_[filename]: the entry, default-inserted when missing
reassembly_entry(buffer, n) ==
  IF n \in DOMAIN buffer THEN buffer[n] ELSE NoChunkedFile

\* the map with the entry of n set
reassembly_store(buffer, n, chunked_file) ==
  [m \in DOMAIN buffer \cup {n} |-> IF m = n THEN chunked_file ELSE buffer[m]]

\* FileChunkListenerImpl::process_chunk for one taken sample; write_ok and
\* mtime_ok are the outcomes of finalize_file's write_file and set_file_mtime
process_chunk(p, chunk, write_ok, mtime_ok) ==
  LET n == chunk.filename
      chunked_file == chunk_initialize(reassembly_entry(reassembly_buffer_[p], n), chunk)
      copied == chunk_copy(chunked_file, chunk)
      stored(cf) == Upd(reassembly_buffer_, p, reassembly_store(reassembly_buffer_[p], n, cf))
  IN
  IF chunk_checksum_mismatch(chunk)
    THEN /\ Logged(p, "chunk_bad_checksum", n)
         /\ UNCHANGED <<fs, suppressed_paths_, reassembly_buffer_, cpc, epc>>
  ELSE IF chunk_inconsistent(chunked_file, chunk)
    THEN /\ reassembly_buffer_' = stored(chunked_file)
         /\ Logged(p, "chunk_inconsistent", n)
         /\ UNCHANGED <<fs, suppressed_paths_, cpc, epc>>
  ELSE IF chunk_exceeds(chunked_file, chunk)
    THEN /\ reassembly_buffer_' = stored(chunked_file)
         /\ Logged(p, "chunk_exceeds", n)
         /\ UNCHANGED <<fs, suppressed_paths_, cpc, epc>>
  ELSE IF is_complete(copied)
    THEN /\ finalize_file(p, n, copied, write_ok, mtime_ok)
         /\ reassembly_buffer_' =
              Upd(reassembly_buffer_, p, reassembly_erase(stored(copied)[p], n))
  ELSE /\ reassembly_buffer_' = stored(copied)
       /\ Logged(p, "chunk_stored", n)
       /\ UNCHANGED <<fs, suppressed_paths_, cpc, epc>>

\* ---------------------------------------------------------- FileMonitor
\* the FileState scan_for_changes records for a readable file
FileState(file) ==
  [known |-> TRUE, size |-> Len(file.data), timestamp_sec |-> file.mtime,
   timestamp_nsec |-> 0, checksum |-> compute_checksum(file.data)]

\* get_file_metadata: size, mtime and checksum of an existing file
get_file_metadata(p, n) ==
  [size |-> Len(fs[p][n].data), timestamp_sec |-> fs[p][n].mtime,
   timestamp_nsec |-> 0, checksum |-> compute_checksum(fs[p][n].data)]

\* the names in a state map
Known(map) == {n \in Names : map[n].known}

\* a comparison that looks at the size only
state_differs_size_only(current, previous) == current.size # previous.size

\* a comparison that finds every file changed
state_differs_always(current, previous) == TRUE

\* "compare size, timestamp, or checksum"
state_differs(current, previous) ==
  \/ current.size # previous.size
  \/ current.timestamp_sec # previous.timestamp_sec
  \/ current.timestamp_nsec # previous.timestamp_nsec
  \/ current.checksum # previous.checksum

\* the first loop's classification of one name of current_state
scan_created(p, n) ==
  /\ ~is_suppressed(p, n)
  /\ ~previous_state_[p][n].known

scan_modified(p, n) ==
  /\ ~is_suppressed(p, n)
  /\ previous_state_[p][n].known
  /\ state_differs(current_state[p][n], previous_state_[p][n])

\* the second loop: in previous_state_ and not in current_state
scan_deleted(p, n) ==
  /\ previous_state_[p][n].known
  /\ ~current_state[p][n].known

\* previous_state_ with the rows of the suppressed names kept as they were
scan_next_previous_retaining(p) ==
  [n \in Names |-> IF is_suppressed(p, n) THEN previous_state_[p][n]
                   ELSE current_state[p][n]]

\* what scan_for_changes stores in previous_state_ at its end
scan_next_previous(p) == current_state[p]

\* previous_state_ emptied
scan_failed_previous_cleared(p) == [n \in Names |-> NoState]

\* previous_state_ after list_directory_files has failed: "return false"
\* comes before anything touches the map
scan_failed_previous(p) == previous_state_[p]

\* scan_for_changes, first part: clear the outputs, list the directory and
\* build current_state.  list_ok is the outcome of list_directory_files,
\* unreadable the listed files whose size, mtime or checksum cannot be read.
scan_for_changes_build(p, list_ok, unreadable) ==
  /\ mpc[p] = "loop"
  /\ created_files' = Upd(created_files, p, {})
  /\ modified_files' = Upd(modified_files, p, {})
  /\ deleted_files' = Upd(deleted_files, p, {})
  /\ cycle_events' = Upd(cycle_events, p, {})
  /\ IF list_ok
       THEN /\ current_state' = Upd(current_state, p,
                 [n \in Names |->
                    IF n \in list_directory_files(p) \ unreadable
                      THEN FileState(fs[p][n]) ELSE NoState])
            /\ mpc' = Upd(mpc, p, "built")
            /\ UNCHANGED previous_state_
       ELSE \* return false: the main loop sleeps again
            /\ previous_state_' = Upd(previous_state_, p, scan_failed_previous(p))
            /\ UNCHANGED <<current_state, mpc>>
  /\ UNCHANGED <<fs, suppressed_paths_, todo, cpc, epc, log, now, net_vars>>

\* scan_for_changes, second part: classify, replace previous_state_, return
scan_for_changes_classify(p) ==
  LET created  == {n \in Known(current_state[p]) : scan_created(p, n)}
      modified == {n \in Known(current_state[p]) : scan_modified(p, n)}
      deleted  == {n \in Names : scan_deleted(p, n)}
  IN
  /\ mpc[p] = "built"
  /\ created_files' = Upd(created_files, p, created)
  /\ modified_files' = Upd(modified_files, p, modified)
  /\ deleted_files' = Upd(deleted_files, p, deleted)
  /\ previous_state_' = Upd(previous_state_, p, scan_next_previous(p))
  /\ current_state' = Upd(current_state, p, [n \in Names |-> NoState])
  /\ todo' = Upd(todo, p,
        {[op |-> "CREATE", filename |-> n, metadata |-> NoState] : n \in created}
        \cup {[op |-> "MODIFY", filename |-> n, metadata |-> NoState] : n \in modified})
  /\ mpc' = Upd(mpc, p, "publish")
  /\ UNCHANGED <<fs, suppressed_paths_, cycle_events, cpc, epc, log, now,
                 net_vars>>

\* ------------------------------------------------------------- DirShare
\* the FileContent the publisher builds from a file's metadata and bytes
MakeContent(n, metadata, data) ==
  [filename |-> n, size |-> metadata.size, checksum |-> metadata.checksum,
   timestamp_sec |-> metadata.timestamp_sec,
   timestamp_nsec |-> metadata.timestamp_nsec, data |-> data]

\* the FileEvent of the created / modified loops (timestamp = gettimeofday)
MakeEvent(n, op, metadata) ==
  [filename |-> n, operation |-> op, timestamp_sec |-> now, timestamp_nsec |-> 0,
   metadata |-> metadata]

\* a chunk count that leaves the remainder out
total_chunks_floor(size) == size \div CHUNK_SIZE

\* the large-file branch: the number of chunks of a file of the given size
total_chunks_of(size) == (size + CHUNK_SIZE - 1) \div CHUNK_SIZE

\* the FileChunk the publisher's loop builds for chunk_id
MakeChunk(n, metadata, file_data, chunk_id) ==
  LET offset == chunk_id * CHUNK_SIZE
      this_chunk_size == IF offset + CHUNK_SIZE > metadata.size
                           THEN metadata.size - offset ELSE CHUNK_SIZE
      data == SubSeq(file_data, offset + 1, offset + this_chunk_size)
  IN [filename |-> n, chunk_id |-> chunk_id,
      total_chunks |-> total_chunks_of(metadata.size),
      file_size |-> metadata.size, file_checksum |-> metadata.checksum,
      timestamp_sec |-> metadata.timestamp_sec,
      timestamp_nsec |-> metadata.timestamp_nsec,
      data |-> data, chunk_checksum |-> compute_checksum(data)]

\* what the publisher writes for one file: one FileContent below
\* CHUNK_THRESHOLD, otherwise the FileChunks 0..total_chunks-1 in order
publish_file(n, metadata, file_data) ==
  IF metadata.size < CHUNK_THRESHOLD
    THEN [topic |-> "FileContent",
          samples |-> <<MakeContent(n, metadata, file_data)>>]
    ELSE [topic |-> "FileChunk",
          samples |-> [i \in 1..total_chunks_of(metadata.size) |->
                         MakeChunk(n, metadata, file_data, i - 1)]]

\* the loop going on to the file's bytes after a failed FileEvent write
event_write_failed_ignored(event_ok) == FALSE

\* "if (ret != DDS::RETCODE_OK) { ...; continue; }" after the FileEvent write
event_write_failed(event_ok) == ~event_ok

\* one iteration of the created-files or modified-files loop as the samples
\* it writes, in the order of the write calls; metadata_ok, event_ok and
\* read_ok are the outcomes of get_file_metadata, of the FileEvent write and
\* of read_file
monitoring_loop_publish(n, op, metadata_ok, metadata, event_ok, read_ok, file_data) ==
  LET event == IF event_ok
                 THEN <<[topic |-> "FileEvent", sample |-> MakeEvent(n, op, metadata)]>>
                 ELSE <<>>
      published == publish_file(n, metadata, file_data)
      bytes == [i \in 1..Len(published.samples) |->
                  [topic |-> published.topic, sample |-> published.samples[i]]]
  IN IF ~metadata_ok THEN <<>>
     ELSE IF event_write_failed(event_ok) THEN event
     ELSE IF ~read_ok THEN event
     ELSE event \o bytes

\* the FileEvents the deleted-files loop publishes for the deleted names:
\* none, the loop only logs ("Phase 6 - not yet implemented")
deleted_loop_events(deleted) == {}

\* a sample written while a peer's reader is matched is queued for that peer
Sent(chan, p, matched, sample) ==
  IF matched THEN Upd(chan, p, Append(chan[p], sample)) ELSE chan

\* startup: get_all_files() for the initial snapshot
startup_snapshot(p) ==
  /\ mpc[p] = "init"
  /\ todo' = Upd(todo, p,
        {[op |-> "PUSH", filename |-> n, metadata |-> get_file_metadata(p, n)] :
           n \in list_directory_files(p)})
  /\ mpc' = Upd(mpc, p, "push")
  /\ UNCHANGED <<fs, suppressed_paths_, previous_state_, current_state, created_files,
                 modified_files, deleted_files, cycle_events, cpc, epc, log, now,
                 net_vars>>

\* startup: "Publish initial file contents", one file of the snapshot: a
\* FileContent and no FileEvent.  read_ok is the outcome of read_file.
startup_push_file(p, t, matched, read_ok) ==
  /\ mpc[p] = "push"
  /\ t \in todo[p]
  /\ Len(chanC[p]) < MaxQueue
  /\ todo' = Upd(todo, p, todo[p] \ {t})
  /\ IF read_ok /\ file_exists(p, t.filename)
       THEN chanC' = Sent(chanC, p, matched,
                          MakeContent(t.filename, t.metadata, fs[p][t.filename].data))
       ELSE UNCHANGED chanC
  /\ UNCHANGED <<fs, suppressed_paths_, previous_state_, current_state, created_files,
                 modified_files, deleted_files, cycle_events, mpc, cpc, epc, log, now,
                 chanE>>

\* startup: the push loop is over, the monitoring loop begins
startup_done(p) ==
  /\ mpc[p] = "push"
  /\ todo[p] = {}
  /\ mpc' = Upd(mpc, p, "loop")
  /\ UNCHANGED <<fs, suppressed_paths_, previous_state_, current_state, created_files,
                 modified_files, deleted_files, todo, cycle_events, cpc, epc, log, now,
                 net_vars>>

\* monitoring loop: one iteration of the created-files or modified-files
\* loop: get_file_metadata, FileEvent, read_file, FileContent.
\* read_ok is the outcome of read_file.
publish_change(p, t, matched, read_ok) ==
  LET n == t.filename IN
  /\ mpc[p] = "publish"
  /\ t \in todo[p]
  /\ t.op = "MODIFY" => \A u \in todo[p] : u.op # "CREATE"
  /\ Len(chanE[p]) < MaxQueue
  /\ Len(chanC[p]) < MaxQueue
  /\ todo' = Upd(todo, p, todo[p] \ {t})
  /\ IF ~file_exists(p, n)
       THEN \* get_file_metadata fails: continue
            UNCHANGED <<chanE, chanC, cycle_events>>
       ELSE /\ chanE' = Sent(chanE, p, matched, MakeEvent(n, t.op, get_file_metadata(p, n)))
            /\ cycle_events' = Upd(cycle_events, p, cycle_events[p] \cup {<<t.op, n>>})
            /\ IF read_ok
                 THEN chanC' = Sent(chanC, p, matched,
                                    MakeContent(n, get_file_metadata(p, n), fs[p][n].data))
                 ELSE UNCHANGED chanC
  /\ UNCHANGED <<fs, suppressed_paths_, previous_state_, current_state, created_files,
                 modified_files, deleted_files, mpc, cpc, epc, log, now>>

\* monitoring loop: the deleted-files loop and the end of the iteration
publish_deleted(p, matched) ==
  /\ mpc[p] = "publish"
  /\ todo[p] = {}
  /\ cycle_events' = Upd(cycle_events, p,
                         cycle_events[p] \cup deleted_loop_events(deleted_files[p]))
  /\ mpc' = Upd(mpc, p, "loop")
  /\ UNCHANGED <<fs, suppressed_paths_, previous_state_, current_state, created_files,
                 modified_files, deleted_files, todo, cpc, epc, log, now, net_vars>>

\* ------------------------------------------------------ the environment
\* a user of the shared directory writes or removes a file
local_write(p, n, d) ==
  /\ fs' = SetFile(p, n, write_file(d))
  /\ UNCHANGED <<suppressed_paths_, monitor_vars, cpc, epc, log, now, net_vars>>

local_delete(p, n) ==
  /\ file_exists(p, n)
  /\ fs' = SetFile(p, n, NoFile)
  /\ UNCHANGED <<suppressed_paths_, monitor_vars, cpc, epc, log, now, net_vars>>

\* the clock advances
Tick ==
  /\ now < MaxTime
  /\ now' = now + 1
  /\ UNCHANGED <<fs, suppressed_paths_, monitor_vars, cpc, epc, log, net_vars>>

\* samples a peer may put on the wire
Checksums == {compute_checksum(d) : d \in Data} \cup {BadChecksum}
Sizes == {Len(d) : d \in Data}
NoMeta == [size |-> 0, timestamp_sec |-> 1, timestamp_nsec |-> 0, checksum |-> 0]
Metas == [size : {0}, timestamp_sec : Times, timestamp_nsec : Nsecs, checksum : {0}]

\* CREATE: only the name matters; MODIFY: the name and the metadata mtime;
\* DELETE: the name and the event timestamp (the metadata mtime stays at its
\* oldest value, so the two are told apart)
EventMsgs ==
  [filename : {F, Bad}, operation : {"CREATE"}, timestamp_sec : {1},
   timestamp_nsec : {0}, metadata : {NoMeta}]
  \cup [filename : {F}, operation : {"MODIFY"}, timestamp_sec : {1},
        timestamp_nsec : {0}, metadata : Metas]
  \cup [filename : {F}, operation : {"DELETE"}, timestamp_sec : Times,
        timestamp_nsec : Nsecs,
        metadata : {NoMeta}]

\* every FileContent for F; one well-formed FileContent for Bad
ContentMsgs ==
  {c \in [filename : {F}, size : Sizes, checksum : Checksums,
          timestamp_sec : Times, timestamp_nsec : Nsecs, data : {<<>>, <<MaxByte>>}] :
     \/ c.size = Len(c.data) /\ c.checksum \in {compute_checksum(c.data), BadChecksum}
     \/ c.size # Len(c.data) /\ c.checksum = compute_checksum(c.data)}
  \cup {[filename |-> Bad, size |-> 0, checksum |-> compute_checksum(<<>>),
         timestamp_sec |-> 1, timestamp_nsec |-> 0, data |-> <<>>]}

\* the complete accumulators process_chunk may hand to finalize_file
ChunkedFiles ==
  {k \in [total_chunks : {1}, file_size : Sizes \ {0}, file_checksum : Checksums,
          timestamp_sec : Times, timestamp_nsec : Nsecs, data : {<<MaxByte>>}] :
     k.file_checksum \in {compute_checksum(k.data), BadChecksum}}

SeenNone ==
  [site |-> "none", op |-> "", filename |-> <<>>, valid |-> TRUE, corrupt |-> FALSE,
   existed |-> FALSE, cmp |-> "none", kind |-> "none",
   touched |-> FALSE, removed |-> FALSE, supp_touched |-> FALSE,
   suppressed_after |-> FALSE, ready |-> TRUE]

\* no chunked transfer is under way
NoLast ==
  [kind |-> "none", chunk_id |-> 0, before |-> NoChunkedFile, differs |-> FALSE,
   completed |-> FALSE, mismatch |-> FALSE, touched |-> FALSE, data |-> <<>>,
   total_chunks |-> 0, file_size |-> 0]

NoXfer == [active |-> FALSE]

\* no scan has classified anything yet
NoScan == [done |-> FALSE]

\* no function is being applied
NoCall == [fn |-> "none"]

\* no thread is calling the tracker
NoThreads == <<>>
NoLin == [set |-> {}]

\* no change is being followed through the two topics
NoChange == [active |-> FALSE]

\* start is recorded only by the specifications whose properties speak of it
NoStart == [p \in Participants |-> [n \in Names |-> NoFile]]

\* the files a directory may hold at startup
InitFiles == {NoFile,
              [exists |-> TRUE, data |-> <<>>, mtime |-> 1],
              [exists |-> TRUE, data |-> <<1>>, mtime |-> 2]}

InitCommon ==
  /\ suppressed_paths_ = [p \in Participants |-> {}]
  /\ reassembly_buffer_ = [p \in Participants |-> <<>>]
  /\ previous_state_ = [p \in Participants |-> [n \in Names |-> NoState]]
  /\ current_state = [p \in Participants |-> [n \in Names |-> NoState]]
  /\ created_files = [p \in Participants |-> {}]
  /\ modified_files = [p \in Participants |-> {}]
  /\ deleted_files = [p \in Participants |-> {}]
  /\ todo = [p \in Participants |-> {}]
  /\ mpc = [p \in Participants |-> "init"]
  /\ cpc = [p \in Participants |-> Idle]
  /\ epc = [p \in Participants |-> Idle]
  /\ chanE = [p \in Participants |-> <<>>]
  /\ chanC = [p \in Participants |-> <<>>]
  /\ log = [p \in Participants |-> [kind |-> "none", filename |-> <<>>]]
  /\ cycle_events = [p \in Participants |-> {}]
  /\ seen = SeenNone
  /\ echo = [n \in Names |-> "none"]

\* ------------------------------------------------ Spec: the inbound handlers
\* Participant Local receives arbitrary FileEvent and FileContent samples;
\* every file-system call of a handler may fail.
Local == "B"

Init ==
  /\ InitCommon
  /\ call = NoCall
  /\ mutex_ = "free"
  /\ thr = NoThreads
  /\ lin = NoLin
  /\ scanned = NoScan
  /\ xfer = NoXfer
  /\ change = NoChange
  /\ now = 2
  /\ \E f \in InitFiles :
       fs = [p \in Participants |->
               [n \in Names |-> IF p = Local /\ n = F THEN f ELSE NoFile]]
  /\ start = NoStart

\* the order on (sec, nsec) pairs the conflict policy is stated in
LexGreater(a_sec, a_nsec, b_sec, b_nsec) ==
  a_sec > b_sec \/ (a_sec = b_sec /\ a_nsec > b_nsec)

\* the validity rules for an inbound filename: not empty, no separator, no
\* "..", no leading separator, no ':' as second character
NameIsValid(s) ==
  /\ Len(s) > 0
  /\ \A i \in 1..Len(s) : s[i] \notin {"/", "\\"}
  /\ ~Contains(s, <<".", ".">>)
  /\ ~(Len(s) >= 2 /\ s[2] = ":")

\* how the remote timestamp of a sample stands to the mtime of Local's file
Compare(n, remote_sec, remote_nsec) ==
  IF ~file_exists(Local, n) THEN "none"
  ELSE LET local == get_file_mtime(Local, n) IN
       IF LexGreater(remote_sec, remote_nsec, local.sec, local.nsec) THEN "newer"
       ELSE IF remote_sec = local.sec /\ remote_nsec = local.nsec THEN "equal"
       ELSE "older"

\* the record of one handled sample: what it was (site, operation, name,
\* whether the name is valid, whether size or checksum are wrong, how its
\* timestamp compares) and what the handler's step did
Observe(site, op, n, corrupt, cmp) ==
  seen' = [site |-> site, op |-> op, filename |-> n, valid |-> NameIsValid(n),
           corrupt |-> corrupt, existed |-> file_exists(Local, n), cmp |-> cmp,
           kind |-> log'[Local].kind,
           touched |-> fs' # fs,
           removed |-> fs[Local][n].exists /\ ~fs'[Local][n].exists,
           supp_touched |-> suppressed_paths_' # suppressed_paths_,
           suppressed_after |-> n \in suppressed_paths_'[Local],
           ready |-> cpc'[Local] = Idle]

\* the timestamp the policy of an event speaks of: the metadata mtime of a
\* MODIFY, the event's own timestamp of a DELETE
EventCompare(event) ==
  IF event.operation = "DELETE"
    THEN Compare(event.filename, event.timestamp_sec, event.timestamp_nsec)
    ELSE Compare(event.filename, event.metadata.timestamp_sec,
                 event.metadata.timestamp_nsec)

EnvFileEvent ==
  \E event \in EventMsgs :
  \E unlink_ok \in IF event.operation = "DELETE" THEN BOOLEAN ELSE {TRUE} :
    /\ FileEventListenerImpl_on_data_available(Local, event, unlink_ok)
    /\ Observe("event", event.operation, event.filename, FALSE,
               EventCompare(event))
    /\ UNCHANGED <<monitor_vars, now, net_vars, echo, start, call, tracker_vars, chunk_vars, change, scanned>>

EnvDeleteResume ==
  /\ handle_delete_event_resume(Local)
  /\ UNCHANGED <<monitor_vars, now, net_vars, history_vars, call, tracker_vars, chunk_vars, change, scanned>>

EnvFileContent ==
  \E content \in ContentMsgs :
  \* write_file is reached only by a sample that passes the three checks
  \E write_ok \in IF \/ content_policy_rejects(Local, content)
                      \/ content_size_mismatch(content)
                      \/ content_checksum_mismatch(content)
                   THEN {TRUE} ELSE BOOLEAN :
    /\ process_file_content(Local, content, write_ok)
    /\ Observe("content", "", content.filename,
               \/ content.size # Len(content.data)
               \/ content.checksum # compute_checksum(content.data),
               Compare(content.filename, content.timestamp_sec, content.timestamp_nsec))
    /\ UNCHANGED <<monitor_vars, now, net_vars, echo, start, call, tracker_vars, chunk_vars, change, scanned>>

ContentSetMtime ==
  \E mtime_ok \in BOOLEAN :
    /\ process_file_content_set_mtime(Local, mtime_ok)
    /\ UNCHANGED <<monitor_vars, now, net_vars, history_vars, call, tracker_vars, chunk_vars, change, scanned>>

ContentResume ==
  /\ process_file_content_resume(Local)
  /\ UNCHANGED <<monitor_vars, now, net_vars, history_vars, call, tracker_vars, chunk_vars, change, scanned>>

EnvChunkFinalize ==
  \E chunked_file \in {c \in ChunkedFiles : c.file_size = Len(c.data)} :
  \* write_file is reached only by an accumulator that passes the two checks
  \E write_ok \in IF \/ compute_checksum(chunked_file.data) # chunked_file.file_checksum
                      \/ /\ file_exists(Local, F)
                         /\ ~finalize_remote_is_newer(
                               chunked_file.timestamp_sec, chunked_file.timestamp_nsec,
                               get_file_mtime(Local, F).sec, get_file_mtime(Local, F).nsec)
                   THEN {TRUE} ELSE BOOLEAN :
  \E mtime_ok \in IF write_ok THEN BOOLEAN ELSE {TRUE} :
    /\ finalize_file(Local, F, chunked_file, write_ok, mtime_ok)
    /\ Observe("chunk", "", F,
               chunked_file.file_checksum # compute_checksum(chunked_file.data),
               Compare(F, chunked_file.timestamp_sec, chunked_file.timestamp_nsec))
    /\ UNCHANGED <<monitor_vars, now, net_vars, echo, start, call, tracker_vars, chunk_vars, change, scanned>>

Next ==
  \/ EnvFileEvent
  \/ EnvDeleteResume
  \/ EnvFileContent
  \/ ContentSetMtime
  \/ ContentResume
  \/ EnvChunkFinalize

Spec == Init /\ [][Next]_vars

\* =================================================================
\* Properties of the inbound handlers (specification Spec)
\* =================================================================

\* C6: a FileEvent, FileContent or FileChunk whose filename fails the validity
\* rules is ignored by its handler: handling it changes no file (no write, no
\* unlink) and leaves the suppression set as it was.
C6_InvalidFilenameIgnored ==
  (seen.site # "none" /\ ~seen.valid) => (~seen.touched /\ ~seen.supp_touched)

\* C7: a FileContent whose declared size differs from the length of its
\* bytes, or whose declared checksum differs from the checksum of its bytes
\* (whatever the payload length, zero included), is not written; the name is
\* not suppressed afterwards and the handler is ready for a later sample.
C7_CorruptContentRejected ==
  (seen.site = "content" /\ seen.corrupt)
    => (~seen.touched /\ ~seen.suppressed_after /\ seen.ready)

\* the log lines with which process_file_content returns
ContentReturnKinds ==
  {"content_local_newer", "content_size_mismatch", "content_checksum_mismatch",
   "content_write_failed", "content_written"}

\* C8: whenever process_file_content returns for a name (accepted, rejected by
\* the mtime policy, size mismatch, checksum mismatch, write error, or after a
\* failed set_file_mtime), that name is not in the suppression set.
C8_ContentReturnsResumed ==
  log[Local].kind \in ContentReturnKinds
    => log[Local].filename \notin suppressed_paths_[Local]

\* the handler has returned through its write-error path and has taken the
\* name out of the suppression set on the way
C8_Witness ==
  /\ log[Local] = [kind |-> "content_write_failed", filename |-> F]
  /\ seen.kind = "content_write_failed"
  /\ seen.supp_touched
  /\ F \notin suppressed_paths_[Local]

\* the handler's verdict on the last sample: did the policy let it through
Accepted ==
  CASE seen.site = "event" /\ seen.op = "MODIFY" -> seen.kind = "modify_suppressed"
    [] seen.site = "event" /\ seen.op = "DELETE" ->
         seen.kind \in {"delete_unlinked", "delete_failed"}
    [] seen.site = "content" -> seen.kind # "content_local_newer"
    [] seen.site = "chunk" -> seen.kind # "chunk_local_newer"
    [] OTHER -> FALSE

DecisionSite ==
  \/ seen.site = "event" /\ seen.op \in {"MODIFY", "DELETE"} /\ seen.valid
  \/ seen.site \in {"content", "chunk"}

C26_MtimeRoundTrip ==
  (log[Local].kind = "content_timestamp_preserved" /\ cpc[Local].pc = "mtime_done")
    => get_file_mtime(Local, cpc[Local].filename) =
         [sec |-> cpc[Local].timestamp_sec, nsec |-> cpc[Local].timestamp_nsec]

\* =================================================================
\* SpecMonitor: one participant, its main thread and its handlers
\* =================================================================
\* Participant Local runs startup and the monitoring loop while well-formed
\* FileEvents and FileContents for F arrive and a user edits the directory.
\* No reader is matched, so nothing is queued; file-system calls succeed and
\* the clock stands still.
MonEventMsgs ==
  {e \in EventMsgs : /\ e.filename = F
                     /\ e.timestamp_nsec = 0
                     /\ e.metadata.timestamp_nsec = 0
                     /\ e.operation = "DELETE" => e.metadata.timestamp_sec = 1}
MonContentMsgs ==
  {c \in ContentMsgs : /\ c.filename = F
                       /\ c.timestamp_nsec = 0
                       /\ c.size = Len(c.data)
                       /\ c.checksum = compute_checksum(c.data)}

InitMonitor ==
  /\ InitCommon
  /\ call = NoCall
  /\ mutex_ = "free"
  /\ thr = NoThreads
  /\ lin = NoLin
  /\ scanned = NoScan
  /\ xfer = NoXfer
  /\ change = NoChange
  /\ now = 2
  /\ \E f \in InitFiles :
       fs = [p \in Participants |->
               [n \in Names |-> IF p = Local /\ n = F THEN f ELSE NoFile]]
  /\ start = NoStart

\* echo[n] follows one inbound write of n: "written" (under suppression),
\* "resumed" (the handler has returned), "watched" (a scan has begun after
\* that), then "echoed" if that scan lists n as created or modified; "raced"
\* if a scan lists n while the handler is still between its write and its
\* resume.  An edit by the user ends the watch.
EchoForget(n) == echo' = [echo EXCEPT ![n] = IF @ = "echoed" THEN @ ELSE "none"]

\* change follows one inbound DELETE of a name: "unlinked" (delete_file done
\* under suppression), "resumed" (the handler has returned), "scanning" (a
\* scan has begun after that), then "reported" if that scan returns the name
\* in its deleted list.  A later write or removal of a file, by the user or by
\* a handler, ends the watch.
Reported == change.active /\ change.stage = "reported"
ChangeForget == change' = IF Reported THEN change ELSE NoChange

MonStartupSnapshot ==
  /\ startup_snapshot(Local)
  /\ UNCHANGED <<history_vars, call, tracker_vars, chunk_vars, change, scanned>>

MonStartupPush ==
  \E t \in todo[Local] :
    /\ startup_push_file(Local, t, FALSE, TRUE)
    /\ UNCHANGED <<history_vars, call, tracker_vars, chunk_vars, change, scanned>>

MonStartupDone ==
  /\ startup_done(Local)
  /\ UNCHANGED <<history_vars, call, tracker_vars, chunk_vars, change, scanned>>

MonScanBuild ==
  /\ scan_for_changes_build(Local, TRUE, {})
  /\ echo' = [n \in Names |-> IF echo[n] = "resumed" THEN "watched" ELSE echo[n]]
  /\ change' = IF change.active /\ change.stage = "resumed"
                 THEN [change EXCEPT !.stage = "scanning"] ELSE change
  /\ UNCHANGED <<seen, start, call, tracker_vars, chunk_vars, scanned>>

MonScanClassify ==
  /\ scan_for_changes_classify(Local)
  /\ echo' = [n \in Names |->
                IF echo[n] = "written"
                  THEN IF n \in created_files'[Local] \cup modified_files'[Local]
                         THEN "raced" ELSE echo[n]
                ELSE IF echo[n] # "watched" THEN echo[n]
                ELSE IF n \in created_files'[Local] \cup modified_files'[Local]
                  THEN "echoed" ELSE "none"]
  /\ change' = IF change.active /\ change.stage = "scanning"
                 THEN IF change.filename \in deleted_files'[Local]
                        THEN [change EXCEPT !.stage = "reported"] ELSE NoChange
                 ELSE change
  /\ UNCHANGED <<seen, start, call, tracker_vars, chunk_vars, scanned>>

MonPublishChange ==
  \E t \in todo[Local] :
    /\ publish_change(Local, t, FALSE, TRUE)
    /\ UNCHANGED <<history_vars, call, tracker_vars, chunk_vars, change, scanned>>

MonPublishDeleted ==
  /\ publish_deleted(Local, FALSE)
  /\ UNCHANGED <<history_vars, call, tracker_vars, chunk_vars, change, scanned>>

MonFileEvent ==
  \E event \in MonEventMsgs :
    /\ FileEventListenerImpl_on_data_available(Local, event, TRUE)
    /\ IF fs' # fs THEN EchoForget(event.filename) ELSE UNCHANGED echo
    /\ IF epc'[Local].pc = "unlinked"
         THEN change' = IF Reported THEN change
                        ELSE [active |-> TRUE, filename |-> event.filename,
                              stage |-> "unlinked"]
         ELSE UNCHANGED change
    /\ UNCHANGED <<monitor_vars, now, net_vars, seen, start, call, tracker_vars, chunk_vars, scanned>>

MonDeleteResume ==
  /\ handle_delete_event_resume(Local)
  /\ change' = IF change.active /\ change.stage = "unlinked"
                 THEN [change EXCEPT !.stage = "resumed"] ELSE change
  /\ UNCHANGED <<monitor_vars, now, net_vars, history_vars, call, tracker_vars, chunk_vars, scanned>>

MonFileContent ==
  \E content \in MonContentMsgs :
    /\ process_file_content(Local, content, TRUE)
    /\ IF fs' # fs
         THEN echo' = [echo EXCEPT ![content.filename] =
                         IF @ = "echoed" THEN @
                         ELSE IF is_suppressed(Local, content.filename)
                           THEN "written" ELSE "none"]
         ELSE UNCHANGED echo
    /\ IF fs' # fs THEN ChangeForget ELSE UNCHANGED change
    /\ UNCHANGED <<monitor_vars, now, net_vars, seen, start, call, tracker_vars, chunk_vars, scanned>>

MonContentSetMtime ==
  /\ process_file_content_set_mtime(Local, TRUE)
  /\ UNCHANGED <<monitor_vars, now, net_vars, history_vars, call, tracker_vars, chunk_vars, change, scanned>>

MonContentResume ==
  /\ process_file_content_resume(Local)
  /\ echo' = [echo EXCEPT ![cpc[Local].filename] =
                IF @ = "written" THEN "resumed" ELSE @]
  /\ UNCHANGED <<monitor_vars, now, net_vars, seen, start, call, tracker_vars, chunk_vars, change, scanned>>

MonLocalWrite ==
  \E d \in Data :
    /\ local_write(Local, F, d)
    /\ EchoForget(F)
    /\ ChangeForget
    /\ UNCHANGED <<seen, start, call, tracker_vars, chunk_vars, scanned>>

MonLocalDelete ==
  /\ local_delete(Local, F)
  /\ EchoForget(F)
  /\ ChangeForget
  /\ UNCHANGED <<seen, start, call, tracker_vars, chunk_vars, scanned>>

NextMonitor ==
  \/ MonStartupSnapshot
  \/ MonStartupPush
  \/ MonStartupDone
  \/ MonScanBuild
  \/ MonScanClassify
  \/ MonPublishChange
  \/ MonPublishDeleted
  \/ MonFileEvent
  \/ MonDeleteResume
  \/ MonFileContent
  \/ MonContentSetMtime
  \/ MonContentResume
  \/ MonLocalWrite
  \/ MonLocalDelete

SpecMonitor == InitMonitor /\ [][NextMonitor]_vars

\* C1: when an inbound CREATE or MODIFY for n was accepted, n was suppressed
\* before the file write and resumed after it, the next scan_for_changes
\* lists n neither as created nor as modified, wherever earlier scans fell.
C1_NoEcho ==
  \A n \in Names : echo[n] # "echoed"

\* C5: for every name the last successful scan returned in its deleted list,
\* the iteration of the monitoring loop that has just ended published a
\* FileEvent DELETE for that name.
C5_DeletionPublished ==
  mpc[Local] = "loop"
    => \A n \in deleted_files[Local] : <<"DELETE", n>> \in cycle_events[Local]

\* =================================================================
\* SpecNet: two participants exchanging their samples
\* =================================================================
\* A and B both run startup and the monitoring loop; each sample one writes
\* is taken by the other, per topic in the order written.  Nobody edits the
\* directories and every file-system call succeeds; the clock is past the
\* mtime of every file.  A holds a file, B another one or none.
InitNet ==
  /\ InitCommon
  /\ call = NoCall
  /\ mutex_ = "free"
  /\ thr = NoThreads
  /\ lin = NoLin
  /\ scanned = NoScan
  /\ xfer = NoXfer
  /\ change = NoChange
  /\ now = MaxTime
  /\ \E fa \in InitFiles \ {NoFile} :
     \E fb \in InitFiles \ {fa} :
       fs = [p \in Participants |->
               [n \in Names |-> IF n # F THEN NoFile ELSE IF p = "A" THEN fa ELSE fb]]
  /\ start = fs

\* The main thread of a participant runs startup, and each iteration of the
\* monitoring loop, without another thread stepping in between, unless it
\* waits for room in a writer's queue.  Handlers interleave freely with each
\* other and fall between such runs of the main threads.
Blocked(p) ==
  /\ mpc[p] \in {"push", "publish"}
  /\ todo[p] # {}
  /\ (Len(chanE[p]) >= MaxQueue \/ Len(chanC[p]) >= MaxQueue)

Busy(p) == mpc[p] \in {"push", "built", "publish"} /\ ~Blocked(p)

MainMayRun(p) == Busy(p) \/ \A q \in Participants : ~Busy(q)
HandlerMayRun == \A q \in Participants : ~Busy(q)

NetStartupSnapshot ==
  \E p \in Participants :
    /\ MainMayRun(p)
    /\ startup_snapshot(p)
    /\ UNCHANGED <<history_vars, call, tracker_vars, chunk_vars, change, scanned>>

NetStartupPush ==
  \E p \in Participants : \E t \in todo[p] :
    /\ MainMayRun(p)
    /\ startup_push_file(p, t, TRUE, TRUE)
    /\ UNCHANGED <<history_vars, call, tracker_vars, chunk_vars, change, scanned>>

NetStartupDone ==
  \E p \in Participants :
    /\ MainMayRun(p)
    /\ startup_done(p)
    /\ UNCHANGED <<history_vars, call, tracker_vars, chunk_vars, change, scanned>>

NetScanBuild ==
  \E p \in Participants :
    /\ MainMayRun(p)
    /\ scan_for_changes_build(p, TRUE, {})
    /\ UNCHANGED <<history_vars, call, tracker_vars, chunk_vars, change, scanned>>

NetScanClassify ==
  \E p \in Participants :
    /\ MainMayRun(p)
    /\ scan_for_changes_classify(p)
    /\ UNCHANGED <<history_vars, call, tracker_vars, chunk_vars, change, scanned>>

NetPublishChange ==
  \E p \in Participants : \E t \in todo[p] :
    /\ MainMayRun(p)
    /\ publish_change(p, t, TRUE, TRUE)
    /\ UNCHANGED <<history_vars, call, tracker_vars, chunk_vars, change, scanned>>

NetPublishDeleted ==
  \E p \in Participants :
    /\ MainMayRun(p)
    /\ publish_deleted(p, TRUE)
    /\ UNCHANGED <<history_vars, call, tracker_vars, chunk_vars, change, scanned>>

\* the FileEvent reader of p takes the next sample of its peer
NetTakeEvent ==
  \E p \in Participants :
    /\ HandlerMayRun
    /\ chanE[Other(p)] # <<>>
    /\ FileEventListenerImpl_on_data_available(p, Head(chanE[Other(p)]), TRUE)
    /\ chanE' = Upd(chanE, Other(p), Tail(chanE[Other(p)]))
    /\ UNCHANGED <<monitor_vars, now, chanC, history_vars, call, tracker_vars, chunk_vars, change, scanned>>

\* the FileContent reader of p takes the next sample of its peer
NetTakeContent ==
  \E p \in Participants :
    /\ HandlerMayRun
    /\ chanC[Other(p)] # <<>>
    /\ process_file_content(p, Head(chanC[Other(p)]), TRUE)
    /\ chanC' = Upd(chanC, Other(p), Tail(chanC[Other(p)]))
    /\ UNCHANGED <<monitor_vars, now, chanE, history_vars, call, tracker_vars, chunk_vars, change, scanned>>

NetContentSetMtime ==
  \E p \in Participants :
    /\ HandlerMayRun
    /\ process_file_content_set_mtime(p, TRUE)
    /\ UNCHANGED <<monitor_vars, now, net_vars, history_vars, call, tracker_vars, chunk_vars, change, scanned>>

NetContentResume ==
  \E p \in Participants :
    /\ HandlerMayRun
    /\ process_file_content_resume(p)
    /\ UNCHANGED <<monitor_vars, now, net_vars, history_vars, call, tracker_vars, chunk_vars, change, scanned>>

\* no participant ever publishes a DELETE, so the FileEvent handler is never
\* inside handle_delete_event here
NextNet ==
  \/ NetStartupSnapshot
  \/ NetStartupPush
  \/ NetStartupDone
  \/ NetScanBuild
  \/ NetScanClassify
  \/ NetPublishChange
  \/ NetPublishDeleted
  \/ NetTakeEvent
  \/ NetTakeContent
  \/ NetContentSetMtime
  \/ NetContentResume

SpecNet == InitNet /\ [][NextNet]_vars

\* SpecNetIO: as SpecNet with B's directory empty at startup; a user of A's
\* directory rewrites f once, and read_file may fail in the monitoring loop
\* of a publisher
InitNetIO ==
  /\ InitNet
  /\ ~fs["B"][F].exists

NetPublishChangeReadFails ==
  \E p \in Participants : \E t \in todo[p] :
    /\ MainMayRun(p)
    /\ publish_change(p, t, TRUE, FALSE)
    /\ UNCHANGED <<history_vars, call, tracker_vars, chunk_vars, change, scanned>>

NetLocalWrite ==
  \E d \in Data :
    /\ HandlerMayRun
    /\ fs["A"][F] = start["A"][F]
    /\ local_write("A", F, d)
    /\ UNCHANGED <<history_vars, call, tracker_vars, chunk_vars, change, scanned>>

NextNetIO ==
  \/ NextNet
  \/ NetPublishChangeReadFails
  \/ NetLocalWrite

SpecNetIO == InitNetIO /\ [][NextNetIO]_vars

\* nothing is in flight, every handler is idle and the monitor of every
\* participant has recorded the directory as it is: no further scan reports
\* anything and no sample will be written
Settled(p) ==
  /\ mpc[p] = "loop"
  /\ cpc[p] = Idle
  /\ epc[p] = Idle
  /\ chanE[p] = <<>>
  /\ chanC[p] = <<>>
  /\ \A n \in Names :
       previous_state_[p][n] =
         IF n \in list_directory_files(p) THEN FileState(fs[p][n]) ELSE NoState

Quiescent == \A p \in Participants : Settled(p)

\* C2: when A starts with a small file f and B with an empty directory, B
\* never lists f as created or modified and never publishes a FileEvent for
\* it, and once the startup pushes have been handled B holds f with A's bytes
\* and A's mtime.
C2_SmallFilePropagation ==
  (start["A"][F].exists /\ ~start["B"][F].exists)
    => /\ F \notin created_files["B"] \cup modified_files["B"]
       /\ \A ev \in cycle_events["B"] : ev[2] # F
       /\ Quiescent => fs["B"][F] = start["A"][F]

\* the copy with the strictly greater mtime
Winner == IF start["A"][F].mtime > start["B"][F].mtime THEN start["A"][F]
          ELSE start["B"][F]

\* C4: when A and B start with files of the same name, different bytes and
\* different mtimes, then once the startup pushes and the scans they cause
\* are over both directories hold the bytes and the mtime of the copy whose
\* mtime was strictly greater.
C4_LastWriterWins ==
  (/\ start["A"][F].exists
   /\ start["B"][F].exists
   /\ start["A"][F].data # start["B"][F].data
   /\ start["A"][F].mtime # start["B"][F].mtime
   /\ Quiescent)
    => \A p \in Participants : fs[p][F] = Winner

C4_Witness ==
  /\ start["A"][F].exists
  /\ start["B"][F].exists
  /\ start["A"][F].mtime < start["B"][F].mtime
  /\ Quiescent
  /\ fs["A"][F] = start["B"][F]

\* C3: every name the FileEvent handler has put into the suppression set is
\* taken out again: once nothing is in flight and every thread is at rest,
\* no name is left suppressed, whatever failed in the transfer.
C3_SuppressionNotPermanent ==
  Quiescent => \A p \in Participants : suppressed_paths_[p] = {}


\* =================================================================
\* SpecChunk: Local's FileChunk handler during one chunked transfer
\* =================================================================
\* A peer sends one file of more than CHUNK_SIZE bytes as FileChunks. The
\* chunks reach Local in any order and any number of times; the FileEvent of
\* the transfer arrives at any point; a chunk may arrive damaged (its bytes do
\* not match chunk_checksum) or with metadata that differs from its
\* siblings'. The declared file_checksum may be stale (the file changed
\* between get_file_metadata and read_file).

\* the files sent: bytes that tell every position apart
SentFiles == {[i \in 1..len |-> i] : len \in (CHUNK_SIZE + 1)..MaxFileLen}

ChunkIds == 0..(total_chunks_of(xfer.metadata.size) - 1)

InitChunk ==
  /\ InitCommon
  /\ call = NoCall
  /\ mutex_ = "free"
  /\ thr = NoThreads
  /\ lin = NoLin
  /\ scanned = NoScan
  /\ change = NoChange
  /\ now = MaxTime
  /\ start = NoStart
  /\ \E f \in InitFiles :
       fs = [p \in Participants |->
               [n \in Names |-> IF p = Local /\ n = F THEN f ELSE NoFile]]
  /\ \E file_data \in SentFiles, stale \in BOOLEAN :
       xfer = [file_data |-> file_data,
               metadata |-> [size |-> Len(file_data), timestamp_sec |-> 2,
                             timestamp_nsec |-> 0,
                             checksum |-> IF stale
                                            THEN compute_checksum(file_data) + 1
                                            ELSE compute_checksum(file_data)],
               count |-> [i \in 0..(total_chunks_of(Len(file_data)) - 1) |-> 0],
               faults |-> 0, finalized |-> 0, final_data |-> <<>>,
               installed |-> NoFile, last |-> NoLast]

\* the chunk the publisher builds for chunk_id of the transfer
HonestChunk(chunk_id) == MakeChunk(F, xfer.metadata, xfer.file_data, chunk_id)

\* the metadata a chunk shares with its siblings
ChunkMeta(c) ==
  <<c.total_chunks, c.file_size, c.file_checksum, c.timestamp_sec, c.timestamp_nsec>>

\* the log lines with which finalize_file returns
FinalizeKinds ==
  {"chunk_local_newer", "chunk_checksum_mismatch", "chunk_write_failed",
   "chunk_written"}

\* one delivery to process_chunk and its record
Deliver(kind, chunk) ==
  LET before == reassembly_entry(reassembly_buffer_[Local], F)
      copied == chunk_copy(chunk_initialize(before, chunk), chunk)
      completed == log'[Local].kind \in FinalizeKinds
      \* the file-system calls are reached only by a chunk that completes
      stored == /\ ~chunk_checksum_mismatch(chunk)
                /\ ~chunk_inconsistent(chunk_initialize(before, chunk), chunk)
                /\ ~chunk_exceeds(chunk_initialize(before, chunk), chunk)
      writes == stored /\ is_complete(copied)
  IN
  \E write_ok \in IF writes THEN BOOLEAN ELSE {TRUE} :
  \E mtime_ok \in IF writes /\ write_ok THEN BOOLEAN ELSE {TRUE} :
    /\ process_chunk(Local, chunk, write_ok, mtime_ok)
    /\ xfer' = [xfer EXCEPT
         !.count = IF kind = "honest"
                     THEN [@ EXCEPT ![chunk.chunk_id] = @ + 1] ELSE @,
         !.faults = IF kind = "honest" THEN @ ELSE @ + 1,
         !.finalized = IF completed /\ @ < 2 THEN @ + 1 ELSE @,
         !.final_data = IF completed THEN copied.data ELSE @,
         !.installed = IF completed /\ xfer.finalized = 0 THEN fs'[Local][F] ELSE @,
         !.last = [kind |-> kind, chunk_id |-> chunk.chunk_id, before |-> before,
                   differs |-> before.total_chunks # 0
                               /\ ChunkMeta(chunk) # ChunkMeta(before),
                   completed |-> completed,
                   mismatch |-> compute_checksum(copied.data) # copied.file_checksum,
                   touched |-> fs' # fs, data |-> chunk.data,
                   total_chunks |-> chunk.total_chunks,
                   file_size |-> chunk.file_size]]
    /\ UNCHANGED <<monitor_vars, now, net_vars, history_vars, call, tracker_vars, change, scanned>>

\* the deliveries so far that repeated an earlier one
RECURSIVE SumOver(_, _)
SumOver(f, ids) ==
  IF ids = {} THEN 0
  ELSE LET i == CHOOSE j \in ids : TRUE IN f[i] + SumOver(f, ids \ {i})

Duplicates ==
  SumOver([i \in ChunkIds |-> IF xfer.count[i] > 1 THEN xfer.count[i] - 1 ELSE 0],
          ChunkIds)

ChunkDeliver ==
  \E chunk_id \in ChunkIds :
    /\ xfer.count[chunk_id] = 0 \/ Duplicates < MaxDuplicates
    /\ Deliver("honest", HonestChunk(chunk_id))

ChunkDeliverDamaged ==
  \E chunk_id \in ChunkIds :
    /\ xfer.faults < MaxFaults
    /\ Deliver("damaged",
               [HonestChunk(chunk_id) EXCEPT !.chunk_checksum = @ + 1])

ChunkDeliverInconsistent ==
  \E chunk_id \in ChunkIds,
     field \in {"total_chunks", "file_size", "file_checksum", "timestamp_sec"} :
    /\ xfer.faults < MaxFaults
    /\ Deliver("inconsistent",
               [HonestChunk(chunk_id) EXCEPT ![field] = @ + 1])

\* chunks with the transfer's metadata and a correct chunk_checksum that the
\* publisher never cut: the chunk_id may be total_chunks, the payload may be
\* empty or one byte longer than the publisher's
MisplacedChunks ==
  {[HonestChunk(0) EXCEPT !.chunk_id = chunk_id, !.data = data,
                          !.chunk_checksum = compute_checksum(data)] :
     chunk_id \in 0..total_chunks_of(xfer.metadata.size),
     data \in {<<>>} \cup {Append(HonestChunk(i).data, MaxByte) : i \in ChunkIds}}

ChunkDeliverMisplaced ==
  \E chunk \in MisplacedChunks :
    /\ xfer.faults < MaxFaults
    /\ Deliver("misplaced", chunk)

\* the FileEvent of the transfer reaches Local's FileEvent handler
ChunkFileEvent ==
  \E op \in {"CREATE", "MODIFY"} :
    /\ FileEventListenerImpl_on_data_available(
         Local, MakeEvent(F, op, xfer.metadata), TRUE)
    /\ xfer' = [xfer EXCEPT !.last = NoLast]
    /\ UNCHANGED <<monitor_vars, now, net_vars, history_vars, call, tracker_vars, reassembly_buffer_,
                   change, scanned>>

NextChunk ==
  \/ ChunkDeliver
  \/ ChunkDeliverDamaged
  \/ ChunkDeliverInconsistent
  \/ ChunkDeliverMisplaced
  \/ ChunkFileEvent

SpecChunk == InitChunk /\ [][NextChunk]_vars

\* =================================================================
\* Properties of the chunk handler (specification SpecChunk)
\* =================================================================

\* every chunk of the transfer has been delivered at least once
AllDelivered == \A i \in ChunkIds : xfer.count[i] >= 1

\* only the publisher's chunks have been delivered, none of them twice
EachAtMostOnce == xfer.faults = 0 /\ \A i \in ChunkIds : xfer.count[i] <= 1

\* C12: when the chunks the publisher cut from a file arrive once each, in
\* whatever order, finalize_file is called exactly once, by the delivery that
\* brings the last missing chunk and not before, and the bytes it is called
\* with are the chunks' bytes in chunk_id order, i.e. the bytes of the file.
C12_ChunkReassemblyRoundTrip ==
  EachAtMostOnce
    => /\ xfer.finalized = (IF AllDelivered THEN 1 ELSE 0)
       /\ xfer.last.completed => AllDelivered
       /\ AllDelivered => xfer.final_data = xfer.file_data

\* three chunks have arrived with chunk 0 last, and the file is installed
C12_Witness ==
  /\ EachAtMostOnce
  /\ AllDelivered
  /\ Cardinality(ChunkIds) = 3
  /\ xfer.last.chunk_id = 0
  /\ xfer.last.completed
  /\ xfer.finalized = 1
  /\ fs[Local][F].exists
  /\ fs[Local][F].data = xfer.file_data

\* C13: once an accumulator exists for a filename, a chunk whose
\* (total_chunks, file_size, file_checksum, timestamp_sec, timestamp_nsec)
\* differs from the accumulator's in any component is rejected, and the
\* accumulator (metadata, bytes, received set) is what it was before.
C13_ChunkMetadataConsistency ==
  xfer.last.differs
    => /\ log[Local].kind \in {"chunk_inconsistent", "chunk_bad_checksum"}
       /\ reassembly_entry(reassembly_buffer_[Local], F) = xfer.last.before

\* C14: after a chunk whose bytes do not match its chunk_checksum has been
\* handled, the transfer of that filename is dropped: no accumulator is left
\* for the name, and the name is not in the suppression set.
C14_DamagedChunkDropsTransfer ==
  xfer.last.kind = "damaged"
    => /\ F \notin DOMAIN reassembly_buffer_[Local]
       /\ F \notin suppressed_paths_[Local]

\* C15: when the delivery that completes a transfer finds that the CRC32 of
\* the reassembled bytes is not the declared file_checksum, the file is not
\* written, no accumulator is left for the name, and the name is not in the
\* suppression set.
C15_WholeFileIntegrity ==
  (xfer.last.completed /\ xfer.last.mismatch)
    => /\ ~xfer.last.touched
       /\ F \notin DOMAIN reassembly_buffer_[Local]
       /\ F \notin suppressed_paths_[Local]

\* every chunk has arrived, the declared checksum was stale, and
\* finalize_file has returned through its checksum-mismatch path
C15_Witness ==
  /\ xfer.last.completed
  /\ xfer.last.mismatch
  /\ AllDelivered
  /\ xfer.metadata.checksum # compute_checksum(xfer.file_data)
  /\ log[Local] = [kind |-> "chunk_checksum_mismatch", filename |-> F]
  /\ xfer.last.before.received_chunks # {}
  /\ F \notin DOMAIN reassembly_buffer_[Local]

\* the accumulator Local holds when the chunks delivered so far had been
\* delivered once each: none once all of them have arrived, otherwise the
\* transfer's metadata, the bytes of the chunks that arrived (zero elsewhere)
\* and their ids
DeliveredOnceBuffer ==
  LET ids == {i \in ChunkIds : xfer.count[i] >= 1} IN
  IF ids = {} \/ AllDelivered THEN <<>>
  ELSE F :> [total_chunks |-> total_chunks_of(xfer.metadata.size),
        file_size |-> xfer.metadata.size,
        file_checksum |-> xfer.metadata.checksum,
        timestamp_sec |-> xfer.metadata.timestamp_sec,
        timestamp_nsec |-> xfer.metadata.timestamp_nsec,
        data |-> [i \in 1..xfer.metadata.size |->
                    IF ((i - 1) \div CHUNK_SIZE) \in ids THEN xfer.file_data[i] ELSE 0],
        received_chunks |-> ids]

\* C16: delivering a chunk of the transfer again, before or after the other
\* chunks and before or after completion, changes nothing: the accumulator is
\* the one the same chunks delivered once each leave, and once the transfer
\* has completed the file is what the first completion left.
C16_DuplicateChunkIdempotent ==
  xfer.faults = 0
    => /\ reassembly_buffer_[Local] = DeliveredOnceBuffer
       /\ xfer.finalized >= 1 => fs[Local][F] = xfer.installed

\* the same two statements for runs in which no chunk arrives twice
DeliveredOnceHolds ==
  EachAtMostOnce
    => /\ reassembly_buffer_[Local] = DeliveredOnceBuffer
       /\ xfer.finalized >= 1 => fs[Local][F] = xfer.installed

\* =================================================================
\* SpecOrder: one change, its FileEvent and FileContent in both orders
\* =================================================================
\* A peer publishes one change to F as a FileEvent (CREATE or MODIFY) and a
\* FileContent built from the same metadata. Two receivers start from the
\* same directory and meet the same outcomes of write_file and
\* set_file_mtime; EventFirst takes the FileEvent before the FileContent,
\* ContentFirst the FileContent before the FileEvent.
EventFirst == "A"
ContentFirst == "B"

InitOrder ==
  /\ InitCommon
  /\ call = NoCall
  /\ mutex_ = "free"
  /\ thr = NoThreads
  /\ lin = NoLin
  /\ scanned = NoScan
  /\ xfer = NoXfer
  /\ start = NoStart
  /\ now = 2
  /\ \E f \in InitFiles :
       fs = [p \in Participants |-> [n \in Names |-> IF n = F THEN f ELSE NoFile]]
  /\ \E op \in {"CREATE", "MODIFY"}, data \in Data, sec \in Times,
        write_ok \in BOOLEAN, mtime_ok \in BOOLEAN :
       LET metadata == [size |-> Len(data), timestamp_sec |-> sec,
                        timestamp_nsec |-> 0, checksum |-> compute_checksum(data)]
       IN change = [active |-> TRUE,
                    event |-> MakeEvent(F, op, metadata),
                    content |-> MakeContent(F, metadata, data),
                    write_ok |-> write_ok, mtime_ok |-> mtime_ok,
                    taken |-> [p \in Participants |-> {}]]

\* the receiver's reader of the topic hands the sample to its listener
Take(p, topic) ==
  change' = [change EXCEPT !.taken[p] = @ \cup {topic}]

OrderTakeEvent ==
  \E p \in Participants :
    /\ "event" \notin change.taken[p]
    /\ p = ContentFirst => "content" \in change.taken[p]
    /\ FileEventListenerImpl_on_data_available(p, change.event, TRUE)
    /\ Take(p, "event")
    /\ UNCHANGED <<monitor_vars, now, net_vars, history_vars, call, tracker_vars, chunk_vars, scanned>>

OrderTakeContent ==
  \E p \in Participants :
    /\ "content" \notin change.taken[p]
    /\ p = EventFirst => "event" \in change.taken[p]
    /\ process_file_content(p, change.content, change.write_ok)
    /\ Take(p, "content")
    /\ UNCHANGED <<monitor_vars, now, net_vars, history_vars, call, tracker_vars, chunk_vars, scanned>>

OrderContentSetMtime ==
  \E p \in Participants :
    /\ process_file_content_set_mtime(p, change.mtime_ok)
    /\ UNCHANGED <<monitor_vars, now, net_vars, history_vars, call, tracker_vars, chunk_vars, change, scanned>>

OrderContentResume ==
  \E p \in Participants :
    /\ process_file_content_resume(p)
    /\ UNCHANGED <<monitor_vars, now, net_vars, history_vars, call, tracker_vars, chunk_vars, change, scanned>>

NextOrder ==
  \/ OrderTakeEvent
  \/ OrderTakeContent
  \/ OrderContentSetMtime
  \/ OrderContentResume

SpecOrder == InitOrder /\ [][NextOrder]_vars

\* p has taken both samples and its handlers have returned
OrderDone(p) ==
  /\ change.taken[p] = {"event", "content"}
  /\ cpc[p] = Idle
  /\ epc[p] = Idle

\* C17: when both receivers have handled the FileEvent and the FileContent
\* of the change, the one that took the FileEvent first and the one that took
\* the FileContent first hold the same file (bytes and mtime), and the name
\* is in neither receiver's suppression set.
C17_CrossTopicOrderTolerance ==
  (OrderDone(EventFirst) /\ OrderDone(ContentFirst))
    => /\ fs[EventFirst][F] = fs[ContentFirst][F]
       /\ F \notin suppressed_paths_[EventFirst]
       /\ F \notin suppressed_paths_[ContentFirst]

\* the same statement for the runs in which neither write_file nor
\* set_file_mtime fails
OrderTolerantWithoutFailures ==
  (change.write_ok /\ change.mtime_ok
     /\ OrderDone(EventFirst) /\ OrderDone(ContentFirst))
    => /\ fs[EventFirst][F] = fs[ContentFirst][F]
       /\ F \notin suppressed_paths_[EventFirst]
       /\ F \notin suppressed_paths_[ContentFirst]

\* =================================================================
\* SpecScan: Local's monitoring loop over two files
\* =================================================================
\* Local runs its monitoring loop with no peer matched. Users and the
\* inbound handlers write and remove F and G, and the handlers suppress and
\* resume the two names, at any point of the loop.
Watched == {F, G}

InitScan ==
  /\ InitCommon
  /\ call = NoCall
  /\ mutex_ = "free"
  /\ thr = NoThreads
  /\ lin = NoLin
  /\ scanned = NoScan
  /\ xfer = NoXfer
  /\ change = NoChange
  /\ start = NoStart
  /\ now = 2
  /\ \E f \in InitFiles, g \in InitFiles :
       fs = [p \in Participants |->
               [n \in Names |-> IF p # Local THEN NoFile
                                ELSE IF n = F THEN f
                                ELSE IF n = G THEN g ELSE NoFile]]

ScanFrame == UNCHANGED <<history_vars, call, tracker_vars, chunk_vars, change>>

\* the startup sequence, with nobody to send to
ScanStartup ==
  /\ \/ startup_snapshot(Local)
     \/ \E t \in todo[Local] : startup_push_file(Local, t, FALSE, TRUE)
     \/ startup_done(Local)
  /\ ScanFrame
  /\ UNCHANGED scanned

ScanBuild ==
  \E list_ok \in BOOLEAN :
    /\ scan_for_changes_build(Local, list_ok, {})
    /\ scanned' = NoScan
    /\ ScanFrame

\* the classification, with a record of what it started from
ScanClassify ==
  /\ scan_for_changes_classify(Local)
  /\ scanned' = [done |-> TRUE, previous |-> previous_state_[Local],
                 current |-> current_state[Local],
                 suppressed |-> suppressed_paths_[Local]]
  /\ ScanFrame

ScanPublish ==
  /\ \/ \E t \in todo[Local] : publish_change(Local, t, FALSE, TRUE)
     \/ publish_deleted(Local, FALSE)
  /\ ScanFrame
  /\ UNCHANGED scanned

\* a handler thread calls the tracker
ScanSuppress ==
  \E n \in Watched :
    /\ suppressed_paths_' =
         Upd(suppressed_paths_, Local, suppress_notifications(suppressed_paths_[Local], n))
    /\ UNCHANGED <<fs, monitor_vars, cpc, epc, log, now, net_vars, scanned>>
    /\ ScanFrame

ScanResume ==
  \E n \in Watched :
    /\ suppressed_paths_' =
         Upd(suppressed_paths_, Local, resume_notifications(suppressed_paths_[Local], n))
    /\ UNCHANGED <<fs, monitor_vars, cpc, epc, log, now, net_vars, scanned>>
    /\ ScanFrame

\* a user or a handler writes or removes a file
ScanWrite ==
  \E n \in Watched, d \in Data :
    /\ local_write(Local, n, d)
    /\ ScanFrame
    /\ UNCHANGED scanned

ScanDelete ==
  \E n \in Watched :
    /\ local_delete(Local, n)
    /\ ScanFrame
    /\ UNCHANGED scanned

NextScan ==
  \/ ScanStartup
  \/ ScanBuild
  \/ ScanClassify
  \/ ScanPublish
  \/ ScanSuppress
  \/ ScanResume
  \/ ScanWrite
  \/ ScanDelete

SpecScan == InitScan /\ [][NextScan]_vars

\* =================================================================
\* Properties of the monitor (specification SpecScan)
\* =================================================================

\* n changed between the previous state and the state this scan built
ScanChanged(n) ==
  /\ scanned.current[n].known
  /\ \/ ~scanned.previous[n].known
     \/ state_differs(scanned.current[n], scanned.previous[n])

\* C18: after a scan, no name that was suppressed when the scan classified
\* is in its created or modified list, and every name that was not
\* suppressed and is new or differs from its previous state is in the
\* created, respectively the modified, list of that same scan.
C18_ScanHonoursSuppression ==
  scanned.done
    => \A n \in Names :
         /\ n \in scanned.suppressed
              => n \notin created_files[Local] \cup modified_files[Local]
         /\ (n \notin scanned.suppressed /\ ScanChanged(n))
              => IF scanned.previous[n].known
                   THEN n \in modified_files[Local]
                   ELSE n \in created_files[Local]

\* one scan has skipped the changed, suppressed F and reported the changed,
\* unsuppressed G as modified
C18_Witness ==
  /\ scanned.done
  /\ F \in scanned.suppressed
  /\ ScanChanged(F)
  /\ scanned.previous[F].known
  /\ F \notin created_files[Local] \cup modified_files[Local]
  /\ G \notin scanned.suppressed
  /\ G \in modified_files[Local]

\* C19: a name that is in the previous state, is suppressed when the scan
\* classifies and has no file at scan time is not in the scan's deleted list.
C19_ScanWithholdsSuppressedDeletion ==
  scanned.done
    => \A n \in Names :
         (n \in scanned.suppressed /\ scanned.previous[n].known
            /\ ~scanned.current[n].known)
           => n \notin deleted_files[Local]

\* C20: the scan leaves the previous-state row of a name that is suppressed
\* when it classifies as it was: neither added, nor replaced, nor removed.
C20_PreviousStateRetained ==
  (scanned.done /\ mpc[Local] = "publish")
    => \A n \in scanned.suppressed :
         previous_state_[Local][n] = scanned.previous[n]

\* =================================================================
\* SpecWatch: Local's monitoring loop with failing listings and reads
\* =================================================================
\* Local's monitoring loop watches F and G. The listing of a scan may fail
\* and a listed file may be unreadable; users and handlers write or remove
\* the two files, and handlers suppress and resume F, at any point of the
\* loop.
\*
\* scanned follows the scans: previous is the map the running scan started
\* from, stored the map written by the last scan that returned true, skipped
\* the listed files this scan could not read, failed and done how the last
\* call ended, dirty whether the directory or the suppression set changed
\* since the running scan began, run the number (up to 2) of scans that
\* returned true in a row with the same unreadable files and no such change.
\* echo[F] follows one write of F under suppression: "written", "scanning"
\* (a scan has read it, F still suppressed), "scanned" (that scan has
\* returned), "resumed", "watched" (the next scan has read F), and then
\* "echoed" if either scan listed F as created or modified, else "clean".
NoWatch ==
  [done |-> FALSE, failed |-> FALSE, dirty |-> FALSE, run |-> 0, skipped |-> {},
   previous |-> [n \in Names |-> NoState], stored |-> [n \in Names |-> NoState]]

InitWatch ==
  /\ InitCommon
  /\ call = NoCall
  /\ mutex_ = "free"
  /\ thr = NoThreads
  /\ lin = NoLin
  /\ scanned = NoWatch
  /\ xfer = NoXfer
  /\ change = NoChange
  /\ start = NoStart
  /\ now = 2
  /\ \E f \in InitFiles, g \in InitFiles :
       fs = [p \in Participants |->
               [n \in Names |-> IF p # Local THEN NoFile
                                ELSE IF n = F THEN f
                                ELSE IF n = G THEN g ELSE NoFile]]

WatchFrame == UNCHANGED <<seen, start, call, tracker_vars, chunk_vars, change>>

\* the directory or the suppression set has changed
Disturbed == [scanned EXCEPT !.dirty = TRUE, !.run = 0]

WatchBuild ==
  \E list_ok \in BOOLEAN :
  \E unreadable \in IF list_ok THEN SUBSET (list_directory_files(Local)) ELSE {{}} :
    /\ scan_for_changes_build(Local, list_ok, unreadable)
    /\ scanned' =
         IF list_ok
           THEN [scanned EXCEPT
                   !.done = FALSE, !.failed = FALSE, !.dirty = FALSE,
                   !.previous = previous_state_[Local],
                   !.skipped = unreadable,
                   !.run = IF unreadable = scanned.skipped THEN @ ELSE 0]
           ELSE [scanned EXCEPT
                   !.done = FALSE, !.failed = TRUE,
                   !.previous = previous_state_[Local]]
    /\ echo' = [echo EXCEPT ![F] =
         IF @ = "clean" THEN "none"
         ELSE IF ~list_ok THEN @
         ELSE IF F \in unreadable /\ @ \in {"written", "scanned", "resumed"} THEN "none"
         ELSE IF @ = "written" /\ file_exists(Local, F) THEN "scanning"
         ELSE IF @ = "resumed" /\ file_exists(Local, F) THEN "watched"
         ELSE @]
    /\ WatchFrame

WatchClassify ==
  /\ scan_for_changes_classify(Local)
  /\ scanned' = [scanned EXCEPT
                   !.done = TRUE,
                   !.stored = current_state[Local],
                   !.run = IF scanned.dirty THEN 0 ELSE IF @ = 0 THEN 1 ELSE 2]
  /\ echo' = [echo EXCEPT ![F] =
       IF @ \notin {"scanning", "watched"} THEN @
       ELSE IF F \in created_files'[Local] \cup modified_files'[Local] THEN "echoed"
       ELSE IF @ = "scanning" THEN "scanned" ELSE "clean"]
  /\ WatchFrame

WatchSuppress ==
  /\ suppressed_paths_' =
       Upd(suppressed_paths_, Local, suppress_notifications(suppressed_paths_[Local], F))
  /\ scanned' = IF suppressed_paths_' # suppressed_paths_ THEN Disturbed ELSE scanned
  /\ echo' = [echo EXCEPT ![F] =
       IF @ = "echoed" \/ is_suppressed(Local, F) THEN @ ELSE "none"]
  /\ UNCHANGED <<fs, monitor_vars, cpc, epc, log, now, net_vars>>
  /\ WatchFrame

WatchResume ==
  /\ suppressed_paths_' =
       Upd(suppressed_paths_, Local, resume_notifications(suppressed_paths_[Local], F))
  /\ scanned' = IF suppressed_paths_' # suppressed_paths_ THEN Disturbed ELSE scanned
  /\ echo' = [echo EXCEPT ![F] =
       IF @ = "scanned" THEN "resumed"
       ELSE IF @ \in {"written", "scanning"} THEN "none"
       ELSE @]
  /\ UNCHANGED <<fs, monitor_vars, cpc, epc, log, now, net_vars>>
  /\ WatchFrame

WatchWrite ==
  \E n \in Watched, d \in Data :
    /\ local_write(Local, n, d)
    /\ fs' # fs
    /\ scanned' = Disturbed
    /\ echo' = [echo EXCEPT ![F] =
         IF @ = "echoed" \/ n # F THEN @
         ELSE IF is_suppressed(Local, F) THEN "written" ELSE "none"]
    /\ WatchFrame

WatchDelete ==
  \E n \in Watched :
    /\ local_delete(Local, n)
    /\ scanned' = Disturbed
    /\ echo' = [echo EXCEPT ![F] = IF @ = "echoed" \/ n # F THEN @ ELSE "none"]
    /\ WatchFrame

NextWatch ==
  \/ ScanStartup
  \/ WatchBuild
  \/ WatchClassify
  \/ ScanPublish
  \/ WatchSuppress
  \/ WatchResume
  \/ WatchWrite
  \/ WatchDelete

SpecWatch == InitWatch /\ [][NextWatch]_vars

\* =================================================================
\* Properties of the monitor under failures (specification SpecWatch)
\* =================================================================

\* C21: after F is suppressed, written, read by a scan that returns while F
\* is still suppressed, and resumed, neither that scan nor the next scan
\* that reads the unchanged F lists it as created or modified.
C21_LoopPreventionWorkflow == echo[F] # "echoed"

\* the whole workflow has run, and the monitor now knows the file as the
\* write under suppression left it
C21_Witness ==
  /\ echo[F] = "clean"
  /\ scanned.done
  /\ file_exists(Local, F)
  /\ previous_state_[Local][F] = FileState(fs[Local][F])
  /\ F \notin suppressed_paths_[Local]

\* C22: the second of two scans that returned true, with nothing written,
\* removed, suppressed or resumed since the first began and the same files
\* readable, returns three empty lists.
C22_NoOpConvergence ==
  (scanned.done /\ scanned.run = 2)
    => /\ created_files[Local] = {}
       /\ modified_files[Local] = {}
       /\ deleted_files[Local] = {}

\* the second scan has returned over a directory that holds F
C22_Witness ==
  /\ scanned.done
  /\ scanned.run = 2
  /\ file_exists(Local, F)
  /\ scanned.skipped = {}
  /\ previous_state_[Local][F].known

C24_ListFailureLeavesMonitor ==
  /\ scanned.failed => /\ previous_state_[Local] = scanned.previous
                       /\ mpc[Local] = "loop"
  /\ previous_state_[Local] = scanned.stored

\* a listing has failed while the monitor knew F in a state the directory
\* no longer has
C24_Witness ==
  /\ scanned.failed
  /\ previous_state_[Local][F].known
  /\ file_exists(Local, F)
  /\ previous_state_[Local][F] # FileState(fs[Local][F])

\* =================================================================
\* SpecCalls: the validators and the publisher's framing, applied
\* =================================================================
\* Each step applies one function of the program to arguments drawn from
\* the bounded sets below and records the result in call.

\* the characters the validators tell apart, and an ordinary one
NameChars == {".", "/", "\\", ":", "a"}

Candidates == UNION {[1..k -> NameChars] : k \in 0..MaxNameLen}

\* the files handed to the publisher, with the metadata get_file_metadata
\* has recorded for them
PublishedFiles == {[i \in 1..len |-> i] : len \in 0..MaxFileLen}

InitCalls ==
  /\ InitCommon
  /\ call = NoCall
  /\ mutex_ = "free"
  /\ thr = NoThreads
  /\ lin = NoLin
  /\ scanned = NoScan
  /\ xfer = NoXfer
  /\ change = NoChange
  /\ start = NoStart
  /\ now = 2
  /\ fs = [p \in Participants |-> [n \in Names |-> NoFile]]

CallsFrame ==
  UNCHANGED <<fs, suppressed_paths_, monitor_vars, cpc, epc, log, now, net_vars,
              history_vars, chunk_vars, change, scanned, tracker_vars>>

\* a directory entry and the filename of a FileEvent go through their validators
CallValidate ==
  \E filename \in Candidates :
    /\ call' = [fn |-> "is_valid_filename", filename |-> filename,
                outbound |-> is_valid_filename(filename),
                inbound |-> FileEventListenerImpl_is_valid_filename(filename)]
    /\ CallsFrame

\* the publisher frames one file
CallPublish ==
  \E file_data \in PublishedFiles, sec \in Times, nsec \in Nsecs :
    LET metadata == [size |-> Len(file_data), timestamp_sec |-> sec,
                     timestamp_nsec |-> nsec,
                     checksum |-> compute_checksum(file_data)]
    IN
    /\ call' = [fn |-> "publish_file", metadata |-> metadata, file_data |-> file_data,
                published |-> publish_file(F, metadata, file_data)]
    /\ CallsFrame

\* the monitoring loop publishes one created or modified file
CallLoopIteration ==
  \E op \in {"CREATE", "MODIFY"}, file_data \in PublishedFiles, sec \in Times,
     metadata_ok \in BOOLEAN, event_ok \in BOOLEAN, read_ok \in BOOLEAN :
    LET metadata == [size |-> Len(file_data), timestamp_sec |-> sec,
                     timestamp_nsec |-> 0,
                     checksum |-> compute_checksum(file_data)]
    IN
    /\ call' = [fn |-> "monitoring_loop", op |-> op, metadata |-> metadata,
                metadata_ok |-> metadata_ok, event_ok |-> event_ok,
                read_ok |-> read_ok,
                written |-> monitoring_loop_publish(F, op, metadata_ok, metadata,
                                                    event_ok, read_ok, file_data)]
    /\ CallsFrame

NextCalls ==
  \/ CallValidate
  \/ CallPublish
  \/ CallLoopIteration

SpecCalls == InitCalls /\ [][NextCalls]_vars

\* =================================================================
\* Properties of the validators and the framing (specification SpecCalls)
\* =================================================================

\* C25: both validators accept a candidate exactly when it is not empty, has
\* no "..", no '/' and no backslash, and no ':' as its second character.
C25_FilenameValidityUniform ==
  call.fn = "is_valid_filename"
    => /\ call.outbound = NameIsValid(call.filename)
       /\ call.inbound = NameIsValid(call.filename)

\* the least k with k * c >= s
Ceil(s, c) == CHOOSE k \in 0..s : k * c >= s /\ (k = 0 \/ (k - 1) * c < s)

RECURSIVE SumLen(_)
SumLen(samples) ==
  IF samples = <<>> THEN 0
  ELSE Len(Head(samples).data) + SumLen(Tail(samples))

\* C27: a file of size s below CHUNK_THRESHOLD goes out as one FileContent;
\* otherwise as ceil(s / CHUNK_SIZE) FileChunks numbered from 0 in order,
\* each of CHUNK_SIZE bytes but the last, which has the remaining 1 to
\* CHUNK_SIZE bytes, the lengths adding up to s, and all of them with the
\* same total_chunks, file_size, file_checksum and timestamp.
C27_EncoderFraming ==
  call.fn = "publish_file"
    => LET s == call.metadata.size
           out == call.published.samples
           total == Len(out)
       IN
       IF s < CHUNK_THRESHOLD
         THEN /\ call.published.topic = "FileContent"
              /\ total = 1
         ELSE /\ call.published.topic = "FileChunk"
              /\ total = Ceil(s, CHUNK_SIZE)
              /\ \A i \in 1..total :
                   /\ out[i].chunk_id = i - 1
                   /\ Len(out[i].data) =
                        IF i < total THEN CHUNK_SIZE ELSE s - (total - 1) * CHUNK_SIZE
                   /\ out[i].total_chunks = total
                   /\ out[i].file_size = s
                   /\ out[i].file_checksum = call.metadata.checksum
                   /\ out[i].timestamp_sec = call.metadata.timestamp_sec
                   /\ out[i].timestamp_nsec = call.metadata.timestamp_nsec
              /\ Len(out[total].data) \in 1..CHUNK_SIZE
              /\ SumLen(out) = s

\* a file whose size is not a multiple of CHUNK_SIZE has gone out in three
\* chunks
C27_Witness ==
  /\ call.fn = "publish_file"
  /\ call.published.topic = "FileChunk"
  /\ Len(call.published.samples) = 3
  /\ call.metadata.size % CHUNK_SIZE # 0

\* =================================================================
\* SpecTracker: threads calling Local's FileChangeTracker
\* =================================================================
\* Two threads call the five operations of the tracker on F and G in any
\* order. Every operation takes the mutex, works on the set and releases
\* the mutex; an operation that changes the set reads it and stores the new
\* set in two steps, so that what the mutex excludes can be seen.
\*
\* lin.set is the set that results from applying the calls one after the
\* other in the order in which they stored their result; lin.times[n] counts
\* the suppress calls for n since the last resume(n) or clear(), up to
\* MaxSuppressions.  thr[t].local is the set the call found, thr[t].times
\* the count it found for its path.
Threads == {"t1", "t2"}
TrackedNames == {F, G}
Mutators == {"suppress_notifications", "resume_notifications", "clear"}
Readers == {"is_suppressed", "suppressed_count"}

IdleThread ==
  [pc |-> "idle", fn |-> "none", path |-> F, local |-> {}, times |-> 0,
   result |-> 0, expected |-> 0]

InitTracker ==
  /\ InitCommon
  /\ call = NoCall
  /\ mutex_ = "free"
  /\ thr = [t \in Threads |-> IdleThread]
  /\ lin = [set |-> {}, times |-> [n \in TrackedNames |-> 0]]
  /\ scanned = NoScan
  /\ xfer = NoXfer
  /\ change = NoChange
  /\ start = NoStart
  /\ now = 2
  /\ fs = [p \in Participants |-> [n \in Names |-> NoFile]]

TrackerFrame ==
  UNCHANGED <<fs, monitor_vars, cpc, epc, log, now, net_vars, history_vars,
              chunk_vars, change, scanned, call>>

\* a thread calls an operation
TrackerCall(t) ==
  \E fn \in Mutators \cup Readers :
  \E path \in IF fn \in {"clear", "suppressed_count"} THEN {F} ELSE TrackedNames :
    /\ thr[t].pc = "idle"
    /\ thr' = [thr EXCEPT ![t] = [IdleThread EXCEPT !.pc = "waiting", !.fn = fn,
                                                    !.path = path]]
    /\ UNCHANGED <<suppressed_paths_, mutex_, lin>>
    /\ TrackerFrame

\* the guard's constructor returns
TrackerAcquire(t) ==
  /\ thr[t].pc = "waiting"
  /\ mutex_acquire(mutex_)
  /\ mutex_' = t
  /\ thr' = [thr EXCEPT ![t].pc = "locked"]
  /\ UNCHANGED <<suppressed_paths_, lin>>
  /\ TrackerFrame

\* is_suppressed and suppressed_count look at the set
TrackerLook(t) ==
  /\ thr[t].pc = "locked"
  /\ thr[t].fn \in Readers
  /\ thr' = [thr EXCEPT
       ![t].pc = "done",
       ![t].local = suppressed_paths_[Local],
       ![t].result = IF thr[t].fn = "is_suppressed"
                       THEN IF is_suppressed(Local, thr[t].path) THEN 1 ELSE 0
                       ELSE suppressed_count(suppressed_paths_[Local]),
       ![t].expected = IF thr[t].fn = "is_suppressed"
                         THEN IF thr[t].path \in lin.set THEN 1 ELSE 0
                         ELSE Cardinality(lin.set)]
  /\ UNCHANGED <<suppressed_paths_, mutex_, lin>>
  /\ TrackerFrame

\* insert, erase and clear find the set ...
TrackerRead(t) ==
  /\ thr[t].pc = "locked"
  /\ thr[t].fn \in Mutators
  /\ thr' = [thr EXCEPT ![t].pc = "read", ![t].local = suppressed_paths_[Local]]
  /\ UNCHANGED <<suppressed_paths_, mutex_, lin>>
  /\ TrackerFrame

\* ... and store the new one
TrackerWrite(t) ==
  LET fn == thr[t].fn
      path == thr[t].path
  IN
  /\ thr[t].pc = "read"
  /\ suppressed_paths_' =
       Upd(suppressed_paths_, Local, tracker_apply(fn, thr[t].local, path))
  /\ lin' = [set |-> CASE fn = "suppress_notifications" -> lin.set \cup {path}
                       [] fn = "resume_notifications" -> lin.set \ {path}
                       [] fn = "clear" -> {},
             times |-> [n \in TrackedNames |->
                          CASE fn = "clear" -> 0
                            [] n # path -> lin.times[n]
                            [] fn = "resume_notifications" -> 0
                            [] lin.times[n] < MaxSuppressions -> lin.times[n] + 1
                            [] OTHER -> lin.times[n]]]
  /\ thr' = [thr EXCEPT ![t].pc = "done", ![t].times = lin.times[path]]
  /\ UNCHANGED mutex_
  /\ TrackerFrame

\* the guard's destructor releases the mutex and the call returns
TrackerRelease(t) ==
  /\ thr[t].pc = "done"
  /\ mutex_' = "free"
  /\ thr' = [thr EXCEPT ![t] = IdleThread]
  /\ UNCHANGED <<suppressed_paths_, lin>>
  /\ TrackerFrame

NextTracker ==
  \E t \in Threads :
    \/ TrackerCall(t)
    \/ TrackerAcquire(t)
    \/ TrackerLook(t)
    \/ TrackerRead(t)
    \/ TrackerWrite(t)
    \/ TrackerRelease(t)

SpecTracker == InitTracker /\ [][NextTracker]_vars

\* =================================================================
\* Properties of the tracker (specification SpecTracker)
\* =================================================================

\* thread t is about to return from a call of fn
Returning(t, fn) == thr[t].pc = "done" /\ thr[t].fn = fn

\* C28: a name that has been suppressed one or more times since it was last
\* resumed is in the set, a suppress call returns with its name counted
\* once by suppressed_count, and a resume call returns with its name not
\* suppressed, however often the name was suppressed before.
C28_SuppressionIdempotence ==
  /\ \A n \in TrackedNames : lin.times[n] >= 1 => is_suppressed(Local, n)
  /\ \A t \in Threads :
       /\ Returning(t, "suppress_notifications")
            => /\ is_suppressed(Local, thr[t].path)
               /\ suppressed_count(suppressed_paths_[Local])
                    = Cardinality(thr[t].local \ {thr[t].path}) + 1
       /\ Returning(t, "resume_notifications")
            => ~is_suppressed(Local, thr[t].path)

\* one resume has cancelled a name that had been suppressed MaxSuppressions
\* times
C28_Witness ==
  \E t \in Threads :
    /\ Returning(t, "resume_notifications")
    /\ thr[t].times = MaxSuppressions
    /\ ~is_suppressed(Local, thr[t].path)

\* C29: only the thread that holds the mutex is inside an operation, the set
\* is at all times the result of the calls applied one after the other in
\* the order in which they held the mutex, and is_suppressed and
\* suppressed_count return what that sequential order gives.
C29_TrackerThreadSafety ==
  /\ \A t \in Threads : thr[t].pc \in {"locked", "read", "done"} => mutex_ = t
  /\ suppressed_paths_[Local] = lin.set
  /\ \A t \in Threads :
       (thr[t].pc = "done" /\ thr[t].fn \in Readers)
         => thr[t].result = thr[t].expected

\* one thread returns from suppressing G while the other waits for the mutex
\* to suppress F, which is already in the set
C29_Witness ==
  /\ Returning("t1", "suppress_notifications")
  /\ thr["t1"].path = G
  /\ thr["t2"].pc = "waiting"
  /\ thr["t2"].fn = "suppress_notifications"
  /\ thr["t2"].path = F
  /\ suppressed_paths_[Local] = {F, G}

\* C30: suppress(a) and resume(a) return with the membership of every other
\* name as they found it, and resume(a) of a name that was not suppressed
\* returns with the set as it found it.
C30_TrackerFrame ==
  \A t \in Threads :
    /\ (Returning(t, "suppress_notifications") \/ Returning(t, "resume_notifications"))
         => suppressed_paths_[Local] \ {thr[t].path} = thr[t].local \ {thr[t].path}
    /\ (Returning(t, "resume_notifications") /\ thr[t].path \notin thr[t].local)
         => suppressed_paths_[Local] = thr[t].local

\* a resume of a name that was not suppressed returns while the other name
\* is suppressed
C30_Witness ==
  \E t \in Threads :
    /\ Returning(t, "resume_notifications")
    /\ thr[t].path \notin thr[t].local
    /\ thr[t].local # {}
    /\ suppressed_paths_[Local] = thr[t].local

\* =================================================================
\* Further properties of the monitor (specification SpecScan)
\* =================================================================

\* C31: after a scan that classified with no name suppressed, a name is in
\* the created list iff it is in the state just built and not in the
\* previous state, in the modified list iff it is in both and size, seconds,
\* nanoseconds or checksum differ, in the deleted list iff it is in the
\* previous state and not in the state just built; the lists are pairwise
\* disjoint and a name with equal rows in both states is in none.
C31_ScanClassification ==
  (scanned.done /\ scanned.suppressed = {})
    => LET cur == scanned.current
           prev == scanned.previous
           created == created_files[Local]
           modified == modified_files[Local]
           deleted == deleted_files[Local]
       IN
       /\ \A n \in Names :
            /\ n \in created <=> (cur[n].known /\ ~prev[n].known)
            /\ n \in modified <=>
                 /\ cur[n].known
                 /\ prev[n].known
                 /\ \/ cur[n].size # prev[n].size
                    \/ cur[n].timestamp_sec # prev[n].timestamp_sec
                    \/ cur[n].timestamp_nsec # prev[n].timestamp_nsec
                    \/ cur[n].checksum # prev[n].checksum
            /\ n \in deleted <=> (prev[n].known /\ ~cur[n].known)
            /\ cur[n] = prev[n] => n \notin created \cup modified \cup deleted
       /\ created \cap modified = {}
       /\ created \cap deleted = {}
       /\ modified \cap deleted = {}

\* one scan has reported F as modified for its mtime alone and G as deleted
C31_Witness ==
  /\ scanned.done
  /\ scanned.suppressed = {}
  /\ F \in modified_files[Local]
  /\ scanned.current[F].size = scanned.previous[F].size
  /\ scanned.current[F].checksum = scanned.previous[F].checksum
  /\ G \in deleted_files[Local]

\* =================================================================
\* Further properties of the inbound write (specification SpecMonitor)
\* =================================================================

\* C32: however the steps of scan_for_changes fall between write_file,
\* set_file_mtime and resume_notifications of the FileContent handler for a
\* name an accepted FileEvent has suppressed, no scan lists the name as
\* created or modified: neither one that classifies before the resume nor
\* the first one that begins after it.
C32_ScanHandlerRace ==
  \A n \in Names : echo[n] \notin {"raced", "echoed"}


\* =================================================================
\* SpecPending: two changes of one file on their way to one receiver
\* =================================================================
\* A peer publishes two successive changes of F, each as a FileEvent (CREATE
\* or MODIFY) followed by a FileContent built from the same metadata. Local
\* takes the samples of each topic in the order they were written and each
\* FileContent after its FileEvent; write_file and set_file_mtime may fail.
\* change.pending holds the transfers whose FileEvent Local has accepted and
\* whose FileContent its handler has not yet finished with.
Transfers == 1..2

InitPending ==
  /\ InitCommon
  /\ call = NoCall
  /\ mutex_ = "free"
  /\ thr = NoThreads
  /\ lin = NoLin
  /\ scanned = NoScan
  /\ xfer = NoXfer
  /\ start = NoStart
  /\ now = 2
  /\ \E f \in InitFiles :
       fs = [p \in Participants |->
               [n \in Names |-> IF p = Local /\ n = F THEN f ELSE NoFile]]
  /\ \E op \in [Transfers -> {"CREATE", "MODIFY"}], data \in [Transfers -> Data],
        sec \in [Transfers -> Times] :
       LET metadata(i) == [size |-> Len(data[i]), timestamp_sec |-> sec[i],
                           timestamp_nsec |-> 0,
                           checksum |-> compute_checksum(data[i])]
       IN change = [active |-> TRUE,
                    event |-> [i \in Transfers |-> MakeEvent(F, op[i], metadata(i))],
                    content |-> [i \in Transfers |->
                                   MakeContent(F, metadata(i), data[i])],
                    taken_events |-> {}, taken_contents |-> {},
                    pending |-> {}, handling |-> 0]

PendingFrame ==
  UNCHANGED <<monitor_vars, now, net_vars, history_vars, call, tracker_vars,
              chunk_vars, scanned>>

\* the log lines of handle_create_event and handle_modify_event that follow
\* a suppress_notifications call
AcceptKinds == {"create_suppressed", "modify_as_create", "modify_suppressed"}

PendingTakeEvent ==
  \E i \in Transfers \ change.taken_events :
    /\ \A j \in Transfers : j < i => j \in change.taken_events
    /\ FileEventListenerImpl_on_data_available(Local, change.event[i], TRUE)
    /\ change' = [change EXCEPT
                    !.taken_events = @ \cup {i},
                    !.pending = IF log'[Local].kind \in AcceptKinds
                                  THEN @ \cup {i} ELSE @]
    /\ PendingFrame

PendingTakeContent ==
  \E i \in change.taken_events \ change.taken_contents :
  \E write_ok \in BOOLEAN :
    /\ \A j \in Transfers : j < i => j \in change.taken_contents
    /\ process_file_content(Local, change.content[i], write_ok)
    /\ change' = [change EXCEPT
                    !.taken_contents = @ \cup {i},
                    !.pending = IF cpc'[Local] = Idle THEN @ \ {i} ELSE @,
                    !.handling = IF cpc'[Local] = Idle THEN 0 ELSE i]
    /\ PendingFrame

PendingContentSetMtime ==
  \E mtime_ok \in BOOLEAN :
    /\ process_file_content_set_mtime(Local, mtime_ok)
    /\ UNCHANGED change
    /\ PendingFrame

PendingContentResume ==
  /\ process_file_content_resume(Local)
  /\ change' = [change EXCEPT !.pending = @ \ {change.handling}, !.handling = 0]
  /\ PendingFrame

NextPending ==
  \/ PendingTakeEvent
  \/ PendingTakeContent
  \/ PendingContentSetMtime
  \/ PendingContentResume

SpecPending == InitPending /\ [][NextPending]_vars

\* C33: from the moment the handler accepts the FileEvent of a transfer of F
\* until the FileContent of that transfer has been processed, F is in the
\* suppression set, whatever other FileEvent or FileContent of F is
\* processed in between.
C33_PendingTransferSuppressed ==
  change.pending # {} => F \in suppressed_paths_[Local]


\* =================================================================
\* Further properties of the inbound DELETE (specification SpecMonitor)
\* =================================================================

\* C34: once the handler has accepted a remote DELETE of a name (suppress,
\* unlink, resume) and nobody has touched the directory since, no scan that
\* begins afterwards returns the name in its deleted list.
C34_RemoteDeleteNotReported ==
  ~Reported


\* =================================================================
\* Further properties of the chunk handler (specification SpecChunk)
\* =================================================================

\* C35: finalize_file is called only by a delivery after which every index
\* 0..total_chunks-1 is in the received set, the delivered chunk being one
\* that was missing before; when it has returned, the reassembly buffer has
\* no entry for the name.
C35_FinalizeOnlyWhenComplete ==
  xfer.last.completed
    => LET before == xfer.last.before
           total == IF before.total_chunks # 0 THEN before.total_chunks
                    ELSE xfer.last.total_chunks
       IN /\ \A i \in 0..(total - 1) :
               i \in before.received_chunks \cup {xfer.last.chunk_id}
          /\ xfer.last.chunk_id \in 0..(total - 1)
          /\ xfer.last.chunk_id \notin before.received_chunks
          /\ F \notin DOMAIN reassembly_buffer_[Local]


\* a duplicate of chunk 0 has arrived before the transfer of three chunks was
\* completed by chunk 1, and the entry is gone
C35_Witness ==
  /\ xfer.last.completed
  /\ xfer.last.chunk_id = 1
  /\ xfer.last.before.received_chunks = {0, 2}
  /\ xfer.count[0] = 2
  /\ xfer.finalized = 1
  /\ F \notin DOMAIN reassembly_buffer_[Local]


\* C36: the received set of an accumulator holds only chunk_ids below its
\* total_chunks, so that once every chunk 0..total_chunks-1 of the transfer
\* has been delivered the transfer has completed, whatever other chunks
\* were delivered before.
C36_ReceivedSetBounded ==
  /\ F \in DOMAIN reassembly_buffer_[Local]
       => \A chunk_id \in reassembly_buffer_[Local][F].received_chunks :
            chunk_id < reassembly_buffer_[Local][F].total_chunks
  /\ AllDelivered => xfer.finalized >= 1


\* the accumulator the last delivery found, after "Initialize on first
\* chunk": the entry as it was, or a fresh one of the chunk's file_size
LastInitialized ==
  IF xfer.last.before.total_chunks # 0 THEN xfer.last.before
  ELSE [xfer.last.before EXCEPT !.total_chunks = xfer.last.total_chunks,
                                !.data = resize(@, xfer.last.file_size)]

\* the accumulator bytes after the last delivery: those of the entry, or
\* those finalize_file was called with
LastData ==
  IF xfer.last.completed THEN xfer.final_data
  ELSE reassembly_entry(reassembly_buffer_[Local], F).data

\* C37: a chunk that is stored has its bytes copied to the positions
\* chunk_id * CHUNK_SIZE .. chunk_id * CHUNK_SIZE + len - 1 of the
\* accumulator, all of them below file_size, and every other byte is left as
\* it was; a chunk for which chunk_id * CHUNK_SIZE + len exceeds file_size is
\* rejected, with the accumulator's bytes and received set left as they were.
C37_ChunkCopyBounded ==
  LET offset == xfer.last.chunk_id * CHUNK_SIZE
      len == Len(xfer.last.data)
      size == Len(LastInitialized.data)
      entry == reassembly_entry(reassembly_buffer_[Local], F)
  IN
  /\ (xfer.last.kind # "none"
        /\ log[Local].kind \in {"chunk_stored"} \cup FinalizeKinds)
       => /\ offset + len <= size
          /\ Len(LastData) = size
          /\ \A i \in 1..size :
               LastData[i] = IF i > offset /\ i <= offset + len
                               THEN xfer.last.data[i - offset]
                               ELSE LastInitialized.data[i]
  /\ (xfer.last.kind # "none" /\ offset + len > size)
       => /\ log[Local].kind \in {"chunk_bad_checksum", "chunk_inconsistent",
                                  "chunk_exceeds"}
          /\ log[Local].kind # "chunk_bad_checksum"
               => /\ entry.data = LastInitialized.data
                  /\ entry.received_chunks = xfer.last.before.received_chunks
          /\ log[Local].kind = "chunk_bad_checksum"
               => reassembly_buffer_[Local] =
                    (IF xfer.last.before.total_chunks # 0
                       THEN F :> xfer.last.before ELSE <<>>)

\* an over-long last chunk has been rejected by an accumulator that already
\* held chunk 0
C37_Witness ==
  /\ xfer.last.kind = "misplaced"
  /\ log[Local] = [kind |-> "chunk_exceeds", filename |-> F]
  /\ xfer.last.before.received_chunks = {0}
  /\ xfer.last.chunk_id = 1
  /\ Len(xfer.last.data) > 0
  /\ reassembly_entry(reassembly_buffer_[Local], F) = xfer.last.before


\* =================================================================
\* Further properties of the publisher (specification SpecCalls)
\* =================================================================

\* the metadata a FileContent or FileChunk sample carries
BytesMetadata(topic, sample) ==
  IF topic = "FileContent"
    THEN [size |-> sample.size, timestamp_sec |-> sample.timestamp_sec,
          timestamp_nsec |-> sample.timestamp_nsec, checksum |-> sample.checksum]
    ELSE [size |-> sample.file_size, timestamp_sec |-> sample.timestamp_sec,
          timestamp_nsec |-> sample.timestamp_nsec,
          checksum |-> sample.file_checksum]

\* C38: in one iteration of the created-files or modified-files loop every
\* FileContent or FileChunk written for a file comes after a FileEvent
\* written for the same filename with the same size, mtime and checksum, and
\* when the FileEvent write fails the iteration writes nothing for the file.
C38_EventBeforeBytes ==
  call.fn = "monitoring_loop"
    => LET out == call.written IN
       /\ \A i \in 1..Len(out) :
            out[i].topic \in {"FileContent", "FileChunk"}
              => \E j \in 1..(i - 1) :
                   /\ out[j].topic = "FileEvent"
                   /\ out[j].sample.operation = call.op
                   /\ out[j].sample.filename = out[i].sample.filename
                   /\ out[j].sample.metadata = BytesMetadata(out[i].topic, out[i].sample)
       /\ ~call.event_ok => out = <<>>
       /\ (call.metadata_ok /\ call.event_ok /\ call.read_ok)
            => /\ Len(out) >= 2
               /\ out[1].topic = "FileEvent"

\* the FileEvent write has failed for a file that would have gone out as
\* chunks, and nothing was written
C38_Witness ==
  /\ call.fn = "monitoring_loop"
  /\ call.metadata_ok
  /\ ~call.event_ok
  /\ call.read_ok
  /\ call.metadata.size >= CHUNK_THRESHOLD
  /\ call.written = <<>>


\* =================================================================
\* The first scan (specification SpecScan)
\* =================================================================

\* the last classification started from an empty previous_state_, as the
\* constructor leaves it
FromEmptyState ==
  scanned.done /\ \A n \in Names : ~scanned.previous[n].known

MaxClock == 3

\* samples a writer may have unread at its peer, per topic
EchoQueue == 1

SyncedFile == [exists |-> TRUE, data |-> <<>>, mtime |-> 1]

InitEcho ==
  /\ suppressed_paths_ = [p \in Participants |-> {}]
  /\ reassembly_buffer_ = [p \in Participants |-> <<>>]
  /\ previous_state_ = [p \in Participants |->
                          [n \in Names |-> IF n = F THEN FileState(SyncedFile)
                                           ELSE NoState]]
  /\ current_state = [p \in Participants |-> [n \in Names |-> NoState]]
  /\ created_files = [p \in Participants |-> {}]
  /\ modified_files = [p \in Participants |-> {}]
  /\ deleted_files = [p \in Participants |-> {}]
  /\ todo = [p \in Participants |-> {}]
  /\ mpc = [p \in Participants |-> "loop"]
  /\ cpc = [p \in Participants |-> Idle]
  /\ epc = [p \in Participants |-> Idle]
  /\ chanE = [p \in Participants |-> <<>>]
  /\ chanC = [p \in Participants |-> <<>>]
  /\ log = [p \in Participants |-> [kind |-> "none", filename |-> <<>>]]
  /\ cycle_events = [p \in Participants |-> {}]
  /\ seen = SeenNone
  /\ echo = [n \in Names |-> "none"]
  /\ call = NoCall
  /\ mutex_ = "free"
  /\ thr = NoThreads
  /\ lin = NoLin
  /\ scanned = NoScan
  /\ xfer = NoXfer
  /\ change = NoChange
  /\ start = NoStart
  /\ now = 2
  /\ fs = [p \in Participants |->
             [n \in Names |-> IF n = F THEN SyncedFile ELSE NoFile]]

EchoFrame ==
  UNCHANGED <<history_vars, call, tracker_vars, chunk_vars, scanned>>

\* the main thread of p waits while a topic of its own is full; a scan and
\* the publications that follow it run through without a handler falling
\* between them, as in SpecNet
EchoRoom(p) == Len(chanE[p]) < EchoQueue /\ Len(chanC[p]) < EchoQueue

EchoBusy(p) ==
  \/ mpc[p] = "built"
  \/ mpc[p] = "publish" /\ (todo[p] = {} \/ EchoRoom(p))

\* a main thread ends the run it has begun (a scan and its publications)
\* before anything else happens; a handler that has begun a sample is
\* through with it before the clock ticks, before its peer begins anything
\* and before another sample is taken: only the main thread beside it may
\* begin a scan between its calls
EchoMid(p) == cpc[p] # Idle

EchoMainMayRun(p) ==
  \/ EchoBusy(p)
  \/ /\ \A q \in Participants : ~EchoBusy(q)
     /\ ~EchoMid(Other(p))

EchoHandlerMayRun == \A q \in Participants : ~EchoBusy(q)
EchoQuiet == EchoHandlerMayRun /\ \A q \in Participants : ~EchoMid(q)

\* the main thread of p: the monitoring loop
EchoMain(p) ==
  /\ EchoMainMayRun(p)
  /\ \/ scan_for_changes_build(p, TRUE, {})
     \/ scan_for_changes_classify(p)
     \/ /\ EchoRoom(p)
        /\ \E t \in todo[p] : publish_change(p, t, TRUE, TRUE)
     \/ publish_deleted(p, TRUE)
  /\ UNCHANGED change
  /\ EchoFrame

\* the FileEvent reader of p takes the next sample of its peer
EchoTakeEvent(p) ==
  /\ EchoQuiet
  /\ chanE[Other(p)] # <<>>
  /\ FileEventListenerImpl_on_data_available(p, Head(chanE[Other(p)]), TRUE)
  /\ chanE' = Upd(chanE, Other(p), Tail(chanE[Other(p)]))
  /\ UNCHANGED <<monitor_vars, now, chanC, change>>
  /\ EchoFrame

\* the FileContent handler of p: the next sample of its peer, or the next
\* step of the sample it is working on
EchoContent(p) ==
  /\ EchoHandlerMayRun
  /\ ~EchoMid(Other(p))
  /\ \/ /\ chanC[Other(p)] # <<>>
        /\ process_file_content(p, Head(chanC[Other(p)]), TRUE)
        /\ chanC' = Upd(chanC, Other(p), Tail(chanC[Other(p)]))
        /\ UNCHANGED <<monitor_vars, now, chanE>>
     \/ /\ process_file_content_set_mtime(p, TRUE)
        /\ UNCHANGED <<monitor_vars, now, net_vars>>
     \/ /\ process_file_content_resume(p)
        /\ UNCHANGED <<monitor_vars, now, net_vars>>
  /\ UNCHANGED change
  /\ EchoFrame

\* the one local change
EchoLocalWrite ==
  /\ EchoQuiet
  /\ ~change.active
  /\ local_write("A", F, <<MaxByte>>)
  /\ change' = [active |-> TRUE]
  /\ EchoFrame

\* the timestamps in use
Stamps ==
  UNION {{fs[p][n].mtime : n \in {m \in Names : fs[p][m].exists}}
                  : p \in Participants}
    \cup UNION {{previous_state_[p][n].timestamp_sec : n \in Known(previous_state_[p])}
                  : p \in Participants}
    \cup UNION {{current_state[p][n].timestamp_sec : n \in Known(current_state[p])}
                  : p \in Participants}
    \cup UNION {{t.metadata.timestamp_sec : t \in {u \in todo[p] : u.op = "PUSH"}}
                  : p \in Participants}
    \cup UNION {{chanE[p][i].timestamp_sec : i \in DOMAIN chanE[p]}
                  \cup {chanE[p][i].metadata.timestamp_sec : i \in DOMAIN chanE[p]}
                  \cup {chanC[p][i].timestamp_sec : i \in DOMAIN chanC[p]}
                  : p \in Participants}
    \cup {cpc[p].timestamp_sec : p \in {q \in Participants : cpc[q] # Idle}}

Rank(t) == 1 + Cardinality({u \in Stamps : u < t})

\* the next second: later than every timestamp in use
NextSecond == 1 + Cardinality(Stamps)

\* the clock advances by a second; every timestamp is replaced by its rank
EchoTick ==
  /\ EchoQuiet
  /\ NextSecond <= MaxClock
  /\ now' = NextSecond
  /\ fs' = [p \in Participants |-> [n \in Names |->
              IF fs[p][n].exists THEN [fs[p][n] EXCEPT !.mtime = Rank(@)]
              ELSE fs[p][n]]]
  /\ previous_state_' = [p \in Participants |-> [n \in Names |->
              IF previous_state_[p][n].known
                THEN [previous_state_[p][n] EXCEPT !.timestamp_sec = Rank(@)]
                ELSE previous_state_[p][n]]]
  /\ current_state' = [p \in Participants |-> [n \in Names |->
              IF current_state[p][n].known
                THEN [current_state[p][n] EXCEPT !.timestamp_sec = Rank(@)]
                ELSE current_state[p][n]]]
  /\ todo' = [p \in Participants |->
              {IF t.op = "PUSH" THEN [t EXCEPT !.metadata.timestamp_sec = Rank(@)]
               ELSE t : t \in todo[p]}]
  /\ chanE' = [p \in Participants |-> [i \in DOMAIN chanE[p] |->
              [chanE[p][i] EXCEPT !.timestamp_sec = Rank(@),
                                  !.metadata.timestamp_sec = Rank(@)]]]
  /\ chanC' = [p \in Participants |-> [i \in DOMAIN chanC[p] |->
              [chanC[p][i] EXCEPT !.timestamp_sec = Rank(@)]]]
  /\ cpc' = [p \in Participants |->
              IF cpc[p] = Idle THEN cpc[p]
              ELSE [cpc[p] EXCEPT !.timestamp_sec = Rank(@)]]
  /\ UNCHANGED <<suppressed_paths_, created_files, modified_files, deleted_files,
                 mpc, cycle_events, epc, log, change>>
  /\ EchoFrame

NextEcho ==
  \/ \E p \in Participants : EchoMain(p)
  \/ \E p \in Participants : EchoTakeEvent(p)
  \/ \E p \in Participants : EchoContent(p)
  \/ EchoLocalWrite
  \/ EchoTick

SpecEcho == InitEcho /\ [][NextEcho]_vars

\* Each thread keeps running: the main loop sleeps between two scans, so
\* the handlers get their turns, and the main thread of each participant
\* gets its own.
FairEcho ==
  \A p \in Participants :
    /\ SF_vars(EchoMain(p))
    /\ SF_vars(EchoTakeEvent(p))
    /\ SF_vars(EchoContent(p))

SpecEchoFair == SpecEcho /\ FairEcho

\* no sample is in flight, every handler has returned and every monitor has
\* recorded its directory as it is
Calm ==
  \A p \in Participants :
    /\ mpc[p] \notin {"init", "push"}
    /\ todo[p] = {}
    /\ cpc[p] = Idle
    /\ epc[p] = Idle
    /\ chanE[p] = <<>>
    /\ chanC[p] = <<>>
    /\ \A n \in Names :
         previous_state_[p][n] =
           IF n \in list_directory_files(p) THEN FileState(fs[p][n]) ELSE NoState

\* C40: echo is bounded: after the one local change the exchange dies down;
\* from some moment on no sample is in flight, no handler is at work and no
\* scan has anything to report.
C40_EchoBounded == <>[]Calm

====
